---- MODULE Spec2Model ----
(***************************************************************************)
(* KLineLens core: the breakout state machine (structure.py), the timeline *)
(* manager (timeline.py) and the sim-trader state machine (sim_trader/).   *)
(* Prices are integers (FSM/timeline: price units, trader: cents); RVOL is  *)
(* in tenths, result (range/ATR) in hundredths, confidence in hundredths.   *)
(***************************************************************************)
EXTENDS Integers, Sequences, FiniteSets, TLC

VARIABLES fsm, bar_index, signal, prev_fsm_state, attempt_conf,
          tl_previous_state, tl_events, tl_new_events,
          current_plan, trades_today, plan_history, reviews, setup_state,
          config, returned, op, prev_close, target_tests, levels, fed,
          pc, calls, signals, fresh_fsm, fresh_signals, transitions, valid_rvol,
          report_timeline,
          pb_in, playbook, eh_bars, eh_stream, session_bars, zn_in, zn_out,
          traders, machines, agents, svc_call,
          cache, now, cache_call, last_set,
          ws_open, ws_epoch, subscribed_symbols, latest_prices, ws_call, connect_msg, last_ok,
          last_triggers, daily_calls, pending_events, clock, cd_call, trigger_log

fsmVars == <<fsm, bar_index, signal, prev_fsm_state, attempt_conf>>

tlVars == <<tl_previous_state, tl_events, tl_new_events>>

\* the machine's fields, its configuration, the row the last update returned
\* (NoRow before the first one), the last operation called, while no
\* position is open the close of the last snapshot the setup detectors saw,
\* and while one is open the number of managed bars that reached the plan's
\* target level and closed short of it, the key levels every snapshot of the
\* session carries, and the snapshots of a replayed scenario with the status
\* each one returned
traderVars == <<current_plan, trades_today, plan_history, reviews, setup_state,
                config, returned, op, prev_close, target_tests, levels, fed>>

\* analyze_market: where the call stands (pc), the calls made on the
\* AnalysisState, the signals collected by the call, the FSM and the signals
\* of the same call made without a state, the states the FSM moved into
\* during the call, whether a bar of the attempt had a valid RVOL, and the
\* timeline of the report the call returned (before its final sort by ts)
anVars == <<pc, calls, signals, fresh_fsm, fresh_signals, transitions, valid_rvol,
           report_timeline>>

\* generate_playbook: the arguments of the call and the plans it returned;
\* build_eh_context: the bars it is given (NoBars when the context is not
\* built from bars)
pbVars == <<pb_in, playbook, eh_bars>>

\* split_bars_by_session: the bars received from the provider so far, and the
\* SessionBars of the last split (NoSessionBars before it)
sessVars == <<eh_stream, session_bars>>

\* analyze_market up to the zones: the arguments of a call, and what came of
\* it (the error raised, or the timeframe and the zones of the report)
znVars == <<zn_in, zn_out>>

\* sim_trader_service: the _traders cache (ticker to machine), the machines
\* created so far (a machine is known by its place in the list), for each
\* ticker the agent driving it (where it stands in get_trade_plan, the
\* machine get_trader handed it, the updates it has made), and the last
\* call that acted on a machine
svcVars == <<traders, machines, agents, svc_call>>

\* MemoryCache: the _cache dict (NoEntry for a key it does not hold), the
\* clock time.time() reads, the last call made on the cache with its time
\* and what it returned, and for every key the last set(key, value, ttl) not followed by
\* a delete or a clear, with the time it was made (NoSet when there is none)
cacheVars == <<cache, now, cache_call, last_set>>

\* TwelveDataWebSocket: is_connected, the number of connections established
\* so far, _subscribed_symbols, _latest_prices (None for a symbol without
\* one), the subscribe or unsubscribe call waiting for its send to finish
\* (with the connection it sends on), the symbols of the subscribe message
\* sent when the last connection was established, and for every symbol the
\* last subscribe or unsubscribe call that returned True
wsVars == <<ws_open, ws_epoch, subscribed_symbols, latest_prices, ws_call, connect_msg, last_ok>>

\* CooldownManager: its three dictionaries, the wall clock, the last call and
\* the log of every recorded trigger
cooldownVars == <<last_triggers, daily_calls, pending_events, clock, cd_call, trigger_log>>

vars == <<fsm, bar_index, signal, prev_fsm_state, attempt_conf,
          tl_previous_state, tl_events, tl_new_events,
          current_plan, trades_today, plan_history, reviews, setup_state,
          config, returned, op, prev_close, target_tests, levels, fed,
          pc, calls, signals, fresh_fsm, fresh_signals, transitions, valid_rvol,
          report_timeline,
          pb_in, playbook, eh_bars, eh_stream, session_bars, zn_in, zn_out,
          traders, machines, agents, svc_call,
          cache, now, cache_call, last_set,
          ws_open, ws_epoch, subscribed_symbols, latest_prices, ws_call, connect_msg, last_ok,
          last_triggers, daily_calls, pending_events, clock, cd_call, trigger_log>>

(***************************************************************************)
(* Encodings of Python values.                                             *)
(***************************************************************************)
\* float('nan') for an RVOL reading; real readings are >= 0
NaN == 0 - 1

\* None for an Optional[int] / Optional[float]
None == 0 - 1

\* None for an Optional[Zone]
NoZone == [low |-> None, high |-> None]

\* None for an Optional[Signal]
NoSignal == [type |-> "none", direction |-> "none", level |-> None,
             confidence |-> 0, bar_index |-> None, volume_quality |-> "none"]

isnan(x) == x = NaN

Max(a, b) == IF a >= b THEN a ELSE b

(***************************************************************************)
(* Bounds of the BreakoutFSM model.                                        *)
(***************************************************************************)
\* last bar index fed to the FSM in one replay
MaxBarIndex == 8

\* settings of confirm_closes the FSM is constructed with
ConfirmClosesSet == {1, 2}

\* prices a bar's high, low and close are drawn from
FsmPrices == {93, 100, 107}

\* RVOL readings in tenths (NaN, 0.0, 1.0, 2.0)
FsmRvols == {NaN, 0, 10, 20}

\* ATR readings (0 = not available)
FsmAtrs == {0, 10}

\* zones handed to update, in list order
ResistanceZones == <<[low |-> 104, high |-> 106]>>

SupportZones == <<[low |-> 94, high |-> 96]>>

FsmBars == {b \in [h : FsmPrices, l : FsmPrices, c : FsmPrices] : b.l <= b.c /\ b.c <= b.h}

(***************************************************************************)
(* BreakoutFSM (structure.py)                                              *)
(***************************************************************************)
\* BreakoutFSM.__init__
NewFSM(cc) ==
    [state |-> "idle", zone |-> NoZone, direction |-> "none",
     attempt_bar_index |-> None, consecutive_closes |-> 0,
     volume_threshold |-> 18, result_threshold |-> 60,
     confirm_closes |-> cc, fakeout_bars |-> 3,
     max_volume_seen |-> 0, max_result_seen |-> 0]

\* reset that goes back to idle but keeps the stored zone and direction
reset_KeepZone(f) ==
    [f EXCEPT !.state = "idle", !.attempt_bar_index = None,
              !.consecutive_closes = 0,
              !.max_volume_seen = 0, !.max_result_seen = 0]

\* BreakoutFSM.reset
reset(f) ==
    [f EXCEPT !.state = "idle", !.zone = NoZone, !.direction = "none",
              !.attempt_bar_index = None, !.consecutive_closes = 0,
              !.max_volume_seen = 0, !.max_result_seen = 0]

\* result = bar_range / atr if atr > 0 else 0.0   (hundredths)
ResultOf(bar, atr) == IF atr > 0 THEN ((bar.h - bar.l) * 100) \div atr ELSE 0

\* BreakoutFSM._count_factors
count_factors(f, rvol, result) ==
      (IF f.consecutive_closes >= f.confirm_closes THEN 1 ELSE 0)
    + (IF ~isnan(rvol) /\ rvol >= f.volume_threshold THEN 1 ELSE 0)
    + (IF result >= f.result_threshold THEN 1 ELSE 0)

\* BreakoutFSM._get_signal_params: <<confidence, type, volume_quality>>
get_signal_params(f, factors, rvol) ==
    LET volume_quality == IF isnan(rvol) THEN "unavailable"
                          ELSE IF rvol >= f.volume_threshold THEN "confirmed"
                          ELSE "pending"
    IN  IF factors >= 3 THEN <<85, "breakout_confirmed", volume_quality>>
        ELSE IF factors = 2 THEN <<65, "breakout_attempt", volume_quality>>
        ELSE <<45, "breakout_attempt", volume_quality>>

\* the volume_quality computed in _emit_confirmed and _emit_fakeout
EmitVolumeQuality(f) ==
    IF f.max_volume_seen >= f.volume_threshold THEN "confirmed"
    ELSE IF f.max_volume_seen > 0 THEN "pending"
    ELSE "unavailable"

\* BreakoutFSM._emit_confirmed
emit_confirmed(f, idx) ==
    [fsm |-> [f EXCEPT !.state = "confirmed"],
     signal |-> [type |-> "breakout_confirmed", direction |-> f.direction,
                 level |-> IF f.direction = "up" THEN f.zone.high ELSE f.zone.low,
                 confidence |-> 85, bar_index |-> idx,
                 volume_quality |-> EmitVolumeQuality(f)]]

\* BreakoutFSM._emit_fakeout
emit_fakeout(f, idx) ==
    [fsm |-> [f EXCEPT !.state = "fakeout"],
     signal |-> [type |-> "fakeout", direction |-> f.direction,
                 level |-> IF f.direction = "up" THEN f.zone.high ELSE f.zone.low,
                 confidence |-> 75, bar_index |-> idx,
                 volume_quality |-> EmitVolumeQuality(f)]]

\* index of the first zone of the list the bar breaks, 0 if none
FirstBroken(zs, bar, dir) ==
    LET hit == {i \in 1..Len(zs) : IF dir = "up" THEN bar.h > zs[i].high
                                                 ELSE bar.l < zs[i].low}
    IN  IF hit = {} THEN 0 ELSE CHOOSE i \in hit : \A j \in hit : i <= j

\* the state and signal _check_attempt produces for a broken zone
EnterAttempt(f, bar, idx, zone, dir, rvol, result) ==
    LET closed == IF dir = "up" THEN bar.c > zone.high ELSE bar.c < zone.low
        f1 == [f EXCEPT !.state = "attempt", !.zone = zone, !.direction = dir,
                        !.attempt_bar_index = idx,
                        !.consecutive_closes = IF closed THEN 1 ELSE 0,
                        !.max_volume_seen = IF ~isnan(rvol) THEN rvol ELSE 0,
                        !.max_result_seen = result]
        p == get_signal_params(f1, count_factors(f1, rvol, result), rvol)
    IN  [fsm |-> f1,
         signal |-> [type |-> p[2], direction |-> dir,
                     level |-> IF dir = "up" THEN zone.high ELSE zone.low,
                     confidence |-> p[1], bar_index |-> idx,
                     volume_quality |-> p[3]]]

\* BreakoutFSM._check_attempt
check_attempt(f, bar, idx, rvol, result) ==
    LET r == FirstBroken(ResistanceZones, bar, "up")
        s == FirstBroken(SupportZones, bar, "down")
    IN  IF r # 0 THEN EnterAttempt(f, bar, idx, ResistanceZones[r], "up", rvol, result)
        ELSE IF s # 0 THEN EnterAttempt(f, bar, idx, SupportZones[s], "down", rvol, result)
        ELSE [fsm |-> f, signal |-> NoSignal]

\* the close is still beyond the zone on the breakout side
StillOutside(f, bar) ==
    IF f.direction = "up" THEN bar.c > f.zone.high ELSE bar.c < f.zone.low

\* a timeout that reports the abandoned attempt as a fakeout signal
TimeoutCheck_Signals(f, bars_since_attempt) ==
    [fsm |-> IF bars_since_attempt > f.fakeout_bars * 2 THEN reset(f) ELSE f,
     signal |-> IF bars_since_attempt > f.fakeout_bars * 2 /\ f.zone # NoZone
                THEN emit_fakeout(f, bars_since_attempt).signal ELSE NoSignal]

\* a timeout that lets the attempt live one bar longer
TimeoutCheck_Late(f, bars_since_attempt) ==
    [fsm |-> IF bars_since_attempt > f.fakeout_bars * 2 + 1 THEN reset(f) ELSE f,
     signal |-> NoSignal]

\* the final timeout check of _check_confirmation
TimeoutCheck(f, bars_since_attempt) ==
    [fsm |-> IF bars_since_attempt > f.fakeout_bars * 2 THEN reset(f) ELSE f,
     signal |-> NoSignal]

\* a confirmation test that insists on all three factors
ConfirmRule_AllThree(f, factors) == factors >= 3

\* the confirmation test of _check_confirmation: 3/3 factors, or 2/3 with the
\* structure factor
ConfirmRule(f, factors) ==
    factors >= 3 \/ (factors >= 2 /\ f.consecutive_closes >= f.confirm_closes)

\* a fakeout window that ends one bar early
WithinFakeoutWindow_Strict(f, bars_since_attempt) == bars_since_attempt < f.fakeout_bars

\* the fakeout window test of _check_confirmation
WithinFakeoutWindow(f, bars_since_attempt) == bars_since_attempt <= f.fakeout_bars

\* the running maxima as _check_confirmation updates them
UpdateMax(f, rvol, result) ==
    [f EXCEPT !.max_volume_seen = IF ~isnan(rvol) THEN Max(@, rvol) ELSE @,
              !.max_result_seen = Max(@, result)]

\* BreakoutFSM._check_confirmation
check_confirmation(f, bar, idx, rvol, result) ==
    IF f.zone = NoZone \/ f.attempt_bar_index = None
    THEN [fsm |-> reset(f), signal |-> NoSignal]
    ELSE
    LET bars_since_attempt == idx - f.attempt_bar_index
        f1 == UpdateMax(f, rvol, result)
        f2 == [f1 EXCEPT !.consecutive_closes = @ + 1]
        factors == count_factors(f2, f2.max_volume_seen, f2.max_result_seen)
    IN  IF f1.direction \in {"up", "down"}
        THEN IF StillOutside(f1, bar)
             THEN IF ConfirmRule(f2, factors) THEN emit_confirmed(f2, idx)
                  ELSE TimeoutCheck(f2, bars_since_attempt)
             ELSE IF WithinFakeoutWindow(f1, bars_since_attempt)
                  THEN emit_fakeout(f1, idx)
                  ELSE TimeoutCheck(reset(f1), bars_since_attempt)
        ELSE TimeoutCheck(f1, bars_since_attempt)

\* BreakoutFSM.update
fsm_update(f, bar, idx, rvol, atr) ==
    LET result == ResultOf(bar, atr)
    IN  IF f.state = "idle" THEN check_attempt(f, bar, idx, rvol, result)
        ELSE IF f.state = "attempt" THEN check_confirmation(f, bar, idx, rvol, result)
        ELSE [fsm |-> reset(f), signal |-> NoSignal]

(***************************************************************************)
(* TimelineManager (timeline.py)                                           *)
(***************************************************************************)
\* TimelineManager(max_events=...): capacity of the stored event log
max_events == 2

\* zones handed to the timeline, strongest first
TlResistance == <<[low |-> 104, high |-> 106], [low |-> 110, high |-> 112]>>

TlSupport == <<[low |-> 94, high |-> 96], [low |-> 88, high |-> 90]>>

\* the phases of Behavior.probabilities, in dict order
Phases == <<"accumulation", "markup">>

\* Behavior values: probabilities in hundredths, dominant = argmax
Behaviors ==
    {[dominant |-> IF p >= 50 THEN "accumulation" ELSE "markup",
      probabilities |-> [accumulation |-> p, markup |-> 100 - p]] : p \in {40, 60, 75}}

Regimes == {"uptrend", "range"}

BreakoutStates == {"idle", "attempt", "confirmed", "fakeout"}

\* the bar of an update with its features: ATR, RVOL, effort and result
\* (RVOL/effort in tenths, result in hundredths, NaN allowed), the index of
\* the latest swing high and low (None: no swing) and the bar's index
BarContexts ==
    { [o |-> 98, h |-> 98, l |-> 98, c |-> 98, atr |-> 10, rvol |-> 3,
       effort |-> 16, result |-> 50, sh |-> 3, sl |-> None, bar_idx |-> 10],
      [o |-> 103, h |-> 107, l |-> 102, c |-> 103, atr |-> 0, rvol |-> 25,
       effort |-> 20, result |-> 50, sh |-> 8, sl |-> None, bar_idx |-> 10],
      [o |-> 105, h |-> 108, l |-> 104, c |-> 107, atr |-> 10, rvol |-> 25,
       effort |-> 25, result |-> 100, sh |-> None, sl |-> None, bar_idx |-> 10],
      [o |-> 103, h |-> 107, l |-> 102, c |-> 103, atr |-> 10, rvol |-> 25,
       effort |-> 20, result |-> 50, sh |-> 8, sl |-> None, bar_idx |-> 10],
      [o |-> 97, h |-> 98, l |-> 93, c |-> 97, atr |-> 10, rvol |-> 3,
       effort |-> 3, result |-> 50, sh |-> None, sl |-> 9, bar_idx |-> 10],
      [o |-> 102, h |-> 103, l |-> 101, c |-> 102, atr |-> 10, rvol |-> NaN,
       effort |-> NaN, result |-> 20, sh |-> 8, sl |-> None, bar_idx |-> 10],
      [o |-> 99, h |-> 100, l |-> 99, c |-> 100, atr |-> 10, rvol |-> 10,
       effort |-> 10, result |-> 10, sh |-> None, sl |-> 7, bar_idx |-> 10] }

\* self._previous_state = None
NoState == [regime |-> "none", dominant_behavior |-> "none",
            behavior_probabilities |-> [accumulation |-> 0, markup |-> 0],
            breakout_state |-> "none",
            last_swing_high_idx |-> None, last_swing_low_idx |-> None]

\* TimelineEvent (ts, delta and reason are not modelled)
Event(type, sev, idx) == [event_type |-> type, severity |-> sev, bar_index |-> idx]

\* the first event among those of the list's first two zones, as the
\* for zone in zones[:2] ... break loops of generate_soft_events pick it
FirstOfTwo(evs) ==
    LET n == IF Len(evs) < 2 THEN Len(evs) ELSE 2
        hit == {i \in 1..n : evs[i] # "none"}
    IN  IF hit = {} THEN <<>>
        ELSE <<evs[CHOOSE i \in hit : \A j \in hit : i <= j]>>

\* generate_soft_events, step 1, one resistance zone (thresholds 0.5 and 0.15 ATR)
ResistanceZoneEvent(zone, cx) ==
    LET dist == zone.low - cx.h
    IN  IF cx.c > zone.high THEN <<"zone_accepted", "warning">>
        ELSE IF cx.h >= zone.low /\ cx.c < zone.low THEN <<"zone_rejected", "info">>
        ELSE IF dist * 100 <= 15 * cx.atr /\ dist * 100 >= 0 - 15 * cx.atr
             THEN <<"zone_tested", "info">>
        ELSE IF dist > 0 /\ dist * 10 <= 5 * cx.atr THEN <<"zone_approached", "info">>
        ELSE "none"

\* generate_soft_events, step 1, one support zone
SupportZoneEvent(zone, cx) ==
    LET dist == cx.l - zone.high
    IN  IF cx.c < zone.low THEN <<"zone_accepted", "warning">>
        ELSE IF cx.l <= zone.high /\ cx.c > zone.high THEN <<"zone_rejected", "info">>
        ELSE IF dist * 100 >= 0 - 15 * cx.atr /\ dist * 100 <= 15 * cx.atr
             THEN <<"zone_tested", "info">>
        ELSE IF dist < 0 /\ dist * 10 >= 0 - 5 * cx.atr THEN <<"zone_approached", "info">>
        ELSE "none"

\* generate_soft_events, step 2: spring / upthrust (wick ratio >= 0.4)
WyckoffEvents(cx) ==
    LET bar_range == cx.h - cx.l
        upper_wick == cx.h - Max(cx.o, cx.c)
        lower_wick == (IF cx.o <= cx.c THEN cx.o ELSE cx.c) - cx.l
        spring == \E i \in 1..2 : cx.l < TlSupport[i].low /\ cx.c >= TlSupport[i].low
                                  /\ lower_wick * 10 >= 4 * bar_range
        upthrust == \E i \in 1..2 : cx.h > TlResistance[i].high /\ cx.c <= TlResistance[i].high
                                    /\ upper_wick * 10 >= 4 * bar_range
    IN  IF bar_range > 0
        THEN (IF spring THEN << <<"spring", "critical">> >> ELSE <<>>)
             \o (IF upthrust THEN << <<"upthrust", "critical">> >> ELSE <<>>)
        ELSE <<>>

\* generate_soft_events, steps 3 and 4: absorption clue and volume events
VolumeEvents(cx) ==
       (IF ~isnan(cx.effort) /\ ~isnan(cx.result) /\ cx.effort >= 15 /\ cx.result <= 60
        THEN << <<"absorption_clue", "warning">> >> ELSE <<>>)
    \o (IF isnan(cx.rvol) THEN <<>>
        ELSE IF cx.rvol >= 20 THEN << <<"volume_spike", "warning">> >>
        ELSE IF cx.rvol <= 5 THEN << <<"volume_dryup", "info">> >>
        ELSE <<>>)

\* generate_soft_events, step 5: a new swing point within the last 5 bars
SwingEvents(cx, previous_state) ==
       (IF cx.sh # None /\ previous_state # NoState
           /\ cx.sh > previous_state.last_swing_high_idx /\ cx.sh >= cx.bar_idx - 5
        THEN << <<"new_swing_high", "info">> >> ELSE <<>>)
    \o (IF cx.sl # None /\ previous_state # NoState
           /\ cx.sl > previous_state.last_swing_low_idx /\ cx.sl >= cx.bar_idx - 5
        THEN << <<"new_swing_low", "info">> >> ELSE <<>>)

\* generate_soft_events: the (event_type, severity) pairs in list order
generate_soft_events(cx, previous_state) ==
    LET res_evs == [i \in DOMAIN TlResistance |-> ResistanceZoneEvent(TlResistance[i], cx)]
        sup_evs == [i \in DOMAIN TlSupport |-> SupportZoneEvent(TlSupport[i], cx)]
    IN  FirstOfTwo(res_evs) \o FirstOfTwo(sup_evs)
        \o WyckoffEvents(cx) \o VolumeEvents(cx) \o SwingEvents(cx, previous_state)

\* should_emit_event, step 3: one phase's probability move
ProbabilityEvent(old_state, new_state, ph) ==
    LET delta == new_state.behavior_probabilities[ph] - old_state.behavior_probabilities[ph]
    IN  IF delta >= 12 THEN <<ph \o "_prob_up">>
        ELSE IF 0 - delta >= 12 THEN <<ph \o "_prob_down">>
        ELSE <<>>

\* TimelineManager.should_emit_event: the hard event types, in list order
should_emit_event(old_state, new_state) ==
    IF old_state = NoState THEN <<"initialized">>
    ELSE (IF old_state.regime # new_state.regime THEN <<"regime_change">> ELSE <<>>)
      \o (IF old_state.dominant_behavior # new_state.dominant_behavior
          THEN <<"behavior_shift">> ELSE <<>>)
      \o ProbabilityEvent(old_state, new_state, Phases[1])
      \o ProbabilityEvent(old_state, new_state, Phases[2])
      \o (IF old_state.breakout_state # new_state.breakout_state
          THEN IF new_state.breakout_state = "attempt" THEN <<"breakout_attempt">>
               ELSE IF new_state.breakout_state = "confirmed" THEN <<"breakout_confirmed">>
               ELSE IF new_state.breakout_state = "fakeout" THEN <<"fakeout_detected">>
               ELSE <<>>
          ELSE <<>>)

\* the severity TimelineManager.update gives a hard event
HardSeverity(event_type) ==
    IF event_type \in {"regime_change", "breakout_confirmed", "breakdown_confirmed"}
    THEN "critical"
    ELSE IF event_type \in {"behavior_shift", "fakeout_detected"} THEN "warning"
    ELSE "info"

\* an update that adds every soft event, whatever else was emitted
SoftEventsAdded_All(hard_events, soft_events) == soft_events

\* the soft events update adds: none next to a hard event, else the first two
SoftEventsAdded(hard_events, soft_events) ==
    IF hard_events # <<>> THEN <<>>
    ELSE SubSeq(soft_events, 1, IF Len(soft_events) < 2 THEN Len(soft_events) ELSE 2)

\* a trimming that keeps the oldest max_events events
TrimEvents_KeepOldest(evs) ==
    IF Len(evs) > max_events THEN SubSeq(evs, 1, max_events) ELSE evs

\* the trimming of the event history to max_events
TrimEvents(evs) ==
    IF Len(evs) > max_events THEN SubSeq(evs, Len(evs) - max_events + 1, Len(evs)) ELSE evs

\* TimelineManager.update: new previous state, event log and returned events
timeline_update(previous_state, events, regime, behavior, breakout_state, cx) ==
    LET new_state == [regime |-> regime, dominant_behavior |-> behavior.dominant,
                      behavior_probabilities |-> behavior.probabilities,
                      breakout_state |-> breakout_state,
                      last_swing_high_idx |-> cx.sh, last_swing_low_idx |-> cx.sl]
        hard_events == should_emit_event(previous_state, new_state)
        soft_events == IF cx.atr > 0 THEN generate_soft_events(cx, previous_state) ELSE <<>>
        added == SoftEventsAdded(hard_events, soft_events)
        new_events ==
            [i \in 1..Len(hard_events) |->
                Event(hard_events[i], HardSeverity(hard_events[i]), cx.bar_idx)]
            \o [i \in 1..Len(added) |-> Event(added[i][1], added[i][2], cx.bar_idx)]
    IN  [previous_state |-> new_state,
         events |-> TrimEvents(events \o new_events),
         new_events |-> new_events]

\* TimelineManager.__init__
InitTimeline ==
    /\ tl_previous_state = NoState
    /\ tl_events = <<>>
    /\ tl_new_events = <<>>

\* one call of TimelineManager.update
TimelineUpdate ==
    \E regime \in Regimes, behavior \in Behaviors, bs \in BreakoutStates, cx \in BarContexts :
        LET r == timeline_update(tl_previous_state, tl_events, regime, behavior, bs, cx)
        IN  /\ tl_previous_state' = r.previous_state
            /\ tl_events' = r.events
            /\ tl_new_events' = r.new_events

(***************************************************************************)
(* Sim-trader (sim_trader/): configuration, snapshots and setup detectors. *)
(* Prices are in cents; a percentage of a price is kept exact by scaling   *)
(* both sides of a comparison by Scale.                                    *)
(***************************************************************************)
Scale == 10000

\* SimTraderConfig: buffer_pct 0.0005, armed_distance_pct 0.003 and
\* watch_distance_pct 0.01, as multiples of 1/Scale
buffer_pct == 5

armed_distance_pct == 30

watch_distance_pct == 100

confirm_bars == 2

\* time_stop_minutes (shipped default 10), configured low to keep holds short
time_stop_minutes == 3

max_target_attempts == 3

opening_require_high_rvol == TRUE

\* the trade window [09:40, 15:00] ET in minutes of the day
trade_start == 9 * 60 + 40

trade_end == 15 * 60

\* the values of max_trades_per_day the machine is configured with
MaxTradesSet == {1}

\* config.get_buffer / get_armed_distance / get_watch_distance, times Scale
get_buffer(price) == price * buffer_pct

get_armed_distance(price) == price * armed_distance_pct

get_watch_distance(price) == price * watch_distance_pct

\* the largest confirmation count and the longest hold that are explored
MaxConfirm == 2

MaxBarsHeld == 3

\* the number of rows plan_history keeps (100 in the source)
HistoryLimit == 2

\* the key levels of the explored session (HOD, LOD and PMH are None)
SessionLevels == [R1 |-> 10000, R2 |-> 10100, S1 |-> 9700, S2 |-> 9600, YC |-> 9850]

\* snapshot.levels: the same on every snapshot of a session
Levels == levels

\* snapshot.price.close: beyond S1, nowhere, above YC, in sight of R1, near
\* R1, beyond R1
Closes == {9690, 9820, 9853, 9870, 9950, 9980, 10020}

\* the closes fed while a position is held: beyond S1, just above YC, beyond
\* R1 (and, with a high at R2, half way between R1 and R2)
PositionCloses == {9690, 9853, 10020}

Trends == {"up", "down", "neutral"}

TraderBehaviors == {"accumulation", "distribution", "wash", "rally", "chop"}

\* snapshot.ts as the minute of the ET day: 10:00 and 15:01
InHoursTs == 600

OutOfHoursTs == 901

Min(a, b) == IF a <= b THEN a ELSE b

\* an AnalysisSnapshot; wick "up" gives the bar a high at R1, wick "top" a
\* high at R2, wick "down" a low just above YC
Snapshot(ts, close, wick, trend, behavior, quality, rvol, protection) ==
    [ts |-> ts, close |-> close,
     high |-> IF wick = "up" THEN Max(close, Levels.R1)
              ELSE IF wick = "top" THEN Max(close, Levels.R2) ELSE close,
     low |-> IF wick = "down" THEN Min(close, Levels.YC + 5) ELSE close,
     trend_1m |-> trend, behavior |-> behavior, breakout_quality |-> quality,
     rvol_state |-> rvol, opening_protection |-> protection]

\* snapshots for the setup detectors (which read no low), for position
\* management (which reads neither breakout quality nor opening protection),
\* for the handlers that read the timestamp only, and outside trading hours
SetupSnapshots ==
    {Snapshot(InHoursTs, c, w, tr, b, f[1], f[2], f[3]) :
        c \in Closes, w \in {"none", "up"}, tr \in Trends, b \in {"distribution", "chop"},
        f \in {<<"pass", "high", TRUE>>, <<"fail", "high", TRUE>>,
                <<"pass", "ok", TRUE>>, <<"pass", "low", FALSE>>}}

PositionSnapshots ==
    {Snapshot(InHoursTs, c, w, tr, br[1], "pass", br[2], FALSE) :
        c \in PositionCloses, w \in {"none", "down"}, tr \in Trends,
        br \in (TraderBehaviors \X {"high"}) \cup {<<"chop", "low">>}}
    \cup {Snapshot(InHoursTs, Levels.R1 + 50, "top", tr, "chop", "pass", "high", FALSE) :
            tr \in Trends}

TimestampSnapshots ==
    {Snapshot(InHoursTs, 10020, "none", "up", "chop", "pass", "high", FALSE)}

OutOfHoursSnapshots ==
    {Snapshot(OutOfHoursTs, 9690, "none", "down", "chop", "pass", "high", FALSE),
     Snapshot(OutOfHoursTs, 10020, "none", "up", "chop", "pass", "high", FALSE)}

SnapshotsFor(status) ==
    OutOfHoursSnapshots \cup
        (IF status \in {"WAIT", "WATCH", "ARMED"} THEN SetupSnapshots
         ELSE IF status \in {"HOLD", "TRIM"} THEN PositionSnapshots
         ELSE TimestampSnapshots)

\* SetupResult of a detector that found nothing
NotDetected ==
    [detected |-> FALSE, setup_type |-> "none", direction |-> "NONE", status |-> "WAIT",
     key_level |-> None, key_level_name |-> "", target_level |-> None, target_name |-> "",
     invalidation_level |-> None, risk |-> "MED", confirm_count |-> 0]

\* SetupResult of a detected setup; invalidation_level is kept times Scale
Detected(setup, dir, status, key, key_name, target, target_name, inv, risk, count) ==
    [detected |-> TRUE, setup_type |-> setup, direction |-> dir, status |-> status,
     key_level |-> key, key_level_name |-> key_name, target_level |-> target,
     target_name |-> target_name, invalidation_level |-> inv, risk |-> risk,
     confirm_count |-> count]

\* rvol_ok of the breakout / breakdown detectors
RvolOk(snap) ==
    IF snap.opening_protection /\ opening_require_high_rvol
    THEN snap.rvol_state = "high"
    ELSE snap.rvol_state # "low"

\* setups.check_r1_breakout
check_r1_breakout(snap, confirm_count) ==
    LET r1 == Levels.R1
        price == snap.close
        distance == r1 - price
        trend_ok == snap.trend_1m = "up"
        breakout_ok == snap.breakout_quality \in {"pass", "none"}
        risk == IF trend_ok /\ breakout_ok THEN "MED" ELSE "HIGH"
        new_confirm == IF price > r1 THEN confirm_count + 1 ELSE 0
        inv == r1 * Scale - get_buffer(price)
    IN  IF r1 = None THEN NotDetected
        ELSE IF price * Scale > r1 * Scale + get_buffer(price)
        THEN Detected("R1_BREAKOUT", "CALL",
                 IF new_confirm >= confirm_bars /\ trend_ok /\ breakout_ok /\ RvolOk(snap)
                 THEN "ENTER" ELSE "ARMED",
                 r1, "R1", Levels.R2, "R2", inv, risk, new_confirm)
        ELSE IF distance * Scale <= get_armed_distance(price)
        THEN Detected("R1_BREAKOUT", "CALL", "ARMED", r1, "R1", Levels.R2, "R2", inv, risk, 0)
        ELSE IF distance * Scale <= get_watch_distance(price)
        THEN Detected("R1_BREAKOUT", "CALL", "WATCH", r1, "R1", Levels.R2, "R2", None, risk, 0)
        ELSE NotDetected

\* setups.check_s1_breakdown
check_s1_breakdown(snap, confirm_count) ==
    LET s1 == Levels.S1
        price == snap.close
        distance == price - s1
        trend_ok == snap.trend_1m = "down"
        breakout_ok == snap.breakout_quality \in {"pass", "none"}
        risk == IF trend_ok /\ breakout_ok THEN "MED" ELSE "HIGH"
        new_confirm == IF price < s1 THEN confirm_count + 1 ELSE 0
        inv == s1 * Scale + get_buffer(price)
    IN  IF s1 = None THEN NotDetected
        ELSE IF price * Scale < s1 * Scale - get_buffer(price)
        THEN Detected("S1_BREAKDOWN", "PUT",
                 IF new_confirm >= confirm_bars /\ trend_ok /\ breakout_ok /\ RvolOk(snap)
                 THEN "ENTER" ELSE "ARMED",
                 s1, "S1", Levels.S2, "S2", inv, risk, new_confirm)
        ELSE IF distance * Scale <= get_armed_distance(price)
        THEN Detected("S1_BREAKDOWN", "PUT", "ARMED", s1, "S1", Levels.S2, "S2", inv, risk, 0)
        ELSE IF distance * Scale <= get_watch_distance(price)
        THEN Detected("S1_BREAKDOWN", "PUT", "WATCH", s1, "S1", Levels.S2, "S2", None, risk, 0)
        ELSE NotDetected

\* setups.check_yc_reclaim
check_yc_reclaim(snap, confirm_count, was_below_yc) ==
    LET yc == Levels.YC
        price == snap.close
        trend_ok == snap.trend_1m # "down"
        risk == IF trend_ok THEN "MED" ELSE "HIGH"
        new_confirm == confirm_count + 1
    IN  IF yc = None THEN NotDetected
        ELSE IF price < yc
        THEN [NotDetected EXCEPT !.setup_type = "YC_RECLAIM", !.status = "WATCH",
                                 !.key_level = yc, !.key_level_name = "YC"]
        ELSE IF ~was_below_yc THEN NotDetected
        ELSE IF price * Scale > yc * Scale + get_buffer(price)
        THEN Detected("YC_RECLAIM", "CALL",
                 IF new_confirm >= confirm_bars /\ trend_ok THEN "ENTER" ELSE "ARMED",
                 yc, "YC", Levels.R1, "R1", yc * Scale - get_buffer(price), risk, new_confirm)
        ELSE Detected("YC_RECLAIM", "CALL", "WATCH", yc, "YC", Levels.R1, "R1", None, risk, 0)

\* setups.check_r1_reject
check_r1_reject(snap, confirm_count, touched_r1) ==
    LET r1 == Levels.R1
        price == snap.close
        touched_now == snap.high * Scale >= r1 * Scale - get_buffer(price)
        rejected == price * Scale < r1 * Scale - get_buffer(price)
        trend_ok == snap.trend_1m = "down"
        behavior_ok == snap.behavior \in {"distribution", "wash"}
        risk == IF trend_ok \/ behavior_ok THEN "MED" ELSE "HIGH"
        new_confirm == confirm_count + 1
        target == IF Levels.YC # None THEN Levels.YC ELSE Levels.S1
        target_name == IF Levels.YC # None THEN "YC" ELSE "S1"
    IN  IF r1 = None THEN NotDetected
        ELSE IF ~(touched_now \/ touched_r1) THEN NotDetected
        ELSE IF rejected
        THEN Detected("R1_REJECT", "PUT",
                 IF new_confirm >= confirm_bars /\ (trend_ok \/ behavior_ok)
                 THEN "ENTER" ELSE "ARMED",
                 r1, "R1", target, target_name, r1 * Scale + get_buffer(price), risk,
                 new_confirm)
        ELSE Detected("R1_REJECT", "PUT", "WATCH", r1, "R1", target, target_name, None, risk, 0)

\* the sort key of detect_best_setup: status priority, then risk.value, a string
status_priority(status) ==
    IF status = "ENTER" THEN 0 ELSE IF status = "ARMED" THEN 1
    ELSE IF status = "WATCH" THEN 2 ELSE 3

RiskValueOrder(risk) == IF risk = "HIGH" THEN 0 ELSE IF risk = "LOW" THEN 1 ELSE 2

SortKeyLess(a, b) ==
    \/ status_priority(a.status) < status_priority(b.status)
    \/ /\ status_priority(a.status) = status_priority(b.status)
       /\ RiskValueOrder(a.risk) < RiskValueOrder(b.risk)

\* setups.detect_best_setup: the first detected result of the stable sort
detect_best_setup(snap, state) ==
    LET results == << check_r1_breakout(snap, state.r1_confirm),
                      check_s1_breakdown(snap, state.s1_confirm),
                      check_yc_reclaim(snap, state.yc_confirm, state.was_below_yc),
                      check_r1_reject(snap, state.r1_reject_confirm, state.touched_r1) >>
        detected == {i \in 1..4 : results[i].detected}
        best == CHOOSE i \in detected :
                    \A j \in detected \ {i} :
                        \/ SortKeyLess(results[i], results[j])
                        \/ ~SortKeyLess(results[j], results[i]) /\ i < j
    IN  IF detected = {} THEN NotDetected ELSE results[best]

(***************************************************************************)
(* Sim-trader: position management (manager.py).                           *)
(***************************************************************************)
\* target_underlying of a plan without target
NoTarget == [name |-> "", level |-> None]

\* manager._extract_key_level: the number in entry_underlying, else entry_price
extract_key_level(plan) ==
    IF plan.entry_underlying # None THEN plan.entry_underlying ELSE plan.entry_price

\* the first run of digits and dots in "<name> <level>": a digit of the
\* target's name comes before the level (in cents)
extract_target_price(plan) ==
    IF plan.target_underlying = NoTarget THEN None
    ELSE IF plan.target_underlying.name \in {"R1", "S1"} THEN 100
    ELSE IF plan.target_underlying.name \in {"R2", "S2"} THEN 200
    ELSE plan.target_underlying.level

\* manager.update_target_attempts
update_target_attempts(snap, plan) ==
    LET target_price == extract_target_price(plan)
    IN  IF target_price = None \/ target_price = 0 THEN plan.target_attempts
        ELSE IF plan.direction = "CALL"
                /\ snap.high * 1000 >= target_price * 999 /\ snap.close < target_price
        THEN plan.target_attempts + 1
        ELSE IF plan.direction = "PUT"
                /\ snap.low * 1000 <= target_price * 1001 /\ snap.close > target_price
        THEN plan.target_attempts + 1
        ELSE plan.target_attempts

\* manager.check_exit_conditions: the reasons collected
check_exit_conditions(snap, plan) ==
    LET price == snap.close
        key_level == extract_key_level(plan)
    IN  (IF plan.invalidation /\ key_level # None /\ key_level # 0
            /\ \/ /\ plan.setup_type \in {"R1_BREAKOUT", "YC_RECLAIM"}
                  /\ price * Scale < key_level * Scale - get_buffer(price)
               \/ /\ plan.setup_type \in {"S1_BREAKDOWN", "R1_REJECT"}
                  /\ price * Scale > key_level * Scale + get_buffer(price)
         THEN {"key_level"} ELSE {})
        \cup (IF \/ plan.direction = "CALL" /\ snap.trend_1m = "down"
                 \/ plan.direction = "PUT" /\ snap.trend_1m = "up"
              THEN {"trend"} ELSE {})
        \cup (IF \/ plan.direction = "CALL" /\ snap.behavior \in {"distribution", "wash"}
                 \/ plan.direction = "PUT" /\ snap.behavior \in {"accumulation", "rally"}
              THEN {"behavior"} ELSE {})

\* manager.check_trim_conditions: the reasons collected (progress < 0.1 percent)
check_trim_conditions(snap, plan) ==
    LET price == snap.close
        entry == plan.entry_price
    IN  (IF plan.bars_since_entry >= time_stop_minutes /\ entry # None /\ entry # 0
            /\ \/ plan.direction = "CALL" /\ (price - entry) * 1000 < entry
               \/ plan.direction = "PUT" /\ (entry - price) * 1000 < entry
         THEN {"time_stop"} ELSE {})
        \cup (IF plan.target_attempts >= max_target_attempts THEN {"target"} ELSE {})
        \cup (IF snap.rvol_state = "low" /\ snap.behavior = "chop" THEN {"momentum"} ELSE {})

\* manager.manage_position: EXIT before TRIM before HOLD
manage_position(snap, plan) ==
    IF check_exit_conditions(snap, plan) # {} THEN "EXIT"
    ELSE IF check_trim_conditions(snap, plan) # {} THEN "TRIM"
    ELSE "HOLD"

(***************************************************************************)
(* Sim-trader: SimTradeStateMachine (state_machine.py).  A machine is the  *)
(* record of its fields current_plan, trades_today, plan_history, reviews  *)
(* and setup_state; _last_snapshot, which nothing reads, is left out, and  *)
(* so are the display fields of a plan (reasons, entry_zone,               *)
(* watchlist_hint, risk).                                                  *)
(***************************************************************************)
\* _create_wait_plan; entry_underlying holds the key level of the text,
\* invalidation whether the text is set
create_wait_plan(ts) ==
    [ts |-> ts, status |-> "WAIT", direction |-> "NONE", setup_type |-> "none",
     entry_underlying |-> None, target_underlying |-> NoTarget, invalidation |-> FALSE,
     entry_price |-> None, entry_ts |-> None,
     bars_since_entry |-> 0, target_attempts |-> 0]

\* _create_plan_from_setup
create_plan_from_setup(ts, result) ==
    LET directed == result.key_level # None /\ result.direction \in {"CALL", "PUT"}
    IN  [ts |-> ts, status |-> result.status, direction |-> result.direction,
         setup_type |-> result.setup_type,
         entry_underlying |-> IF directed THEN result.key_level ELSE None,
         target_underlying |-> IF result.target_level # None
                               THEN [name |-> result.target_name, level |-> result.target_level]
                               ELSE NoTarget,
         invalidation |-> directed /\ result.invalidation_level # None,
         entry_price |-> None, entry_ts |-> None,
         bars_since_entry |-> 0, target_attempts |-> 0]

\* _reset_state: the setup tracking state
InitialSetupState ==
    [r1_confirm |-> 0, s1_confirm |-> 0, yc_confirm |-> 0, r1_reject_confirm |-> 0,
     was_below_yc |-> FALSE, touched_r1 |-> FALSE]

\* _reset_state (ts "" is None)
reset_state ==
    [current_plan |-> create_wait_plan(None), trades_today |-> 0,
     plan_history |-> <<>>, reviews |-> <<>>, setup_state |-> InitialSetupState]

\* _update_setup_state
update_setup_state(state, snap, result) ==
    LET counted ==
            IF result.setup_type = "R1_BREAKOUT"
            THEN [state EXCEPT !.r1_confirm = result.confirm_count]
            ELSE IF result.setup_type = "S1_BREAKDOWN"
            THEN [state EXCEPT !.s1_confirm = result.confirm_count]
            ELSE IF result.setup_type = "YC_RECLAIM"
            THEN [state EXCEPT !.yc_confirm = result.confirm_count]
            ELSE IF result.setup_type = "R1_REJECT"
            THEN [state EXCEPT !.r1_reject_confirm = result.confirm_count]
            ELSE state
    IN  [counted EXCEPT
            !.was_below_yc = @ \/ (Levels.YC # None /\ snap.close < Levels.YC),
            !.touched_r1 = @ \/ (Levels.R1 # None /\ snap.high >= Levels.R1)]

\* _add_to_history dropping the newest rows beyond the limit
add_to_history_KeepOldest(m) ==
    LET h == Append(m.plan_history, m.current_plan.status)
    IN  [m EXCEPT !.plan_history =
            IF Len(h) > HistoryLimit THEN SubSeq(h, 1, HistoryLimit) ELSE h]

\* _add_to_history: a copy of the plan (its status) is appended, the oldest
\* rows beyond the limit are dropped
add_to_history(m) ==
    LET h == Append(m.plan_history, m.current_plan.status)
    IN  [m EXCEPT !.plan_history =
            IF Len(h) > HistoryLimit THEN SubSeq(h, Len(h) - HistoryLimit + 1, Len(h)) ELSE h]

\* _create_review: outcome by PnL percent against +-0.1
create_review(m, snap) ==
    LET plan == m.current_plan
        entry == plan.entry_price
        exit_price == snap.close
        gain == IF plan.direction = "CALL" THEN exit_price - entry ELSE entry - exit_price
        outcome == IF gain * 1000 > entry THEN "WIN"
                   ELSE IF gain * 1000 < 0 - entry THEN "LOSS" ELSE "BREAKEVEN"
    IN  IF plan.entry_ts = None \/ entry = None \/ entry = 0 THEN m
        ELSE [m EXCEPT !.reviews = Append(@,
                 [direction |-> plan.direction, setup |-> plan.setup_type,
                  entry_ts |-> plan.entry_ts, entry_price |-> entry,
                  exit_ts |-> snap.ts, exit_price |-> exit_price, outcome |-> outcome])]

\* _is_trading_time, on a timestamp that parses
is_trading_time(ts) == trade_start <= ts /\ ts <= trade_end

\* _handle_wait
handle_wait(m, snap) ==
    LET result == detect_best_setup(snap, m.setup_state)
        m1 == [m EXCEPT !.setup_state = update_setup_state(@, snap, result)]
    IN  IF result.detected
        THEN add_to_history([m1 EXCEPT !.current_plan = create_plan_from_setup(snap.ts, result)])
        ELSE [m1 EXCEPT !.current_plan = create_wait_plan(snap.ts)]

\* _handle_watch
handle_watch(m, snap) ==
    LET result == detect_best_setup(snap, m.setup_state)
        m1 == [m EXCEPT !.setup_state = update_setup_state(@, snap, result)]
        m2 == [m1 EXCEPT !.current_plan = create_plan_from_setup(snap.ts, result)]
    IN  IF ~result.detected
        THEN add_to_history([m1 EXCEPT !.current_plan = create_wait_plan(snap.ts)])
        ELSE IF result.status \in {"ARMED", "ENTER"} THEN add_to_history(m2)
        ELSE m2

\* _handle_armed
handle_armed(m, snap) ==
    LET result == detect_best_setup(snap, m.setup_state)
        m1 == [m EXCEPT !.setup_state = update_setup_state(@, snap, result)]
        m2 == [m1 EXCEPT !.current_plan = create_plan_from_setup(snap.ts, result)]
    IN  IF ~result.detected
        THEN add_to_history([m1 EXCEPT !.current_plan = create_wait_plan(snap.ts)])
        ELSE IF result.status = "ENTER"
        THEN add_to_history([m2 EXCEPT !.current_plan.entry_price = snap.close,
                                       !.current_plan.entry_ts = snap.ts])
        ELSE IF result.status = "WATCH" THEN add_to_history(m2)
        ELSE m2

\* an ENTER handler that leaves the count of the day's trades alone
handle_enter_NoCount(m, snap) ==
    add_to_history([m EXCEPT !.current_plan.status = "HOLD",
                             !.current_plan.ts = snap.ts,
                             !.current_plan.bars_since_entry = 1])

\* _handle_enter
handle_enter(m, snap) ==
    add_to_history([m EXCEPT !.current_plan.status = "HOLD",
                             !.current_plan.ts = snap.ts,
                             !.current_plan.bars_since_entry = 1,
                             !.trades_today = @ + 1])

\* _handle_position
handle_position(m, snap) ==
    LET m1 == [m EXCEPT !.current_plan.bars_since_entry = @ + 1,
                        !.current_plan.ts = snap.ts]
        m2 == [m1 EXCEPT !.current_plan.target_attempts =
                              update_target_attempts(snap, m1.current_plan)]
        action == manage_position(snap, m2.current_plan)
        m3 == [m2 EXCEPT !.current_plan.status = action]
    IN  IF action = "EXIT" THEN create_review(add_to_history(m3), snap) ELSE m3

\* _handle_exit
handle_exit(m, snap) ==
    add_to_history([m EXCEPT !.current_plan = create_wait_plan(snap.ts)])

\* a daily limit that is reached one trade late
LimitReached_Late(m, cfg) == m.trades_today > cfg.max_trades_per_day

\* update, the daily limit check
LimitReached(m, cfg) == m.trades_today >= cfg.max_trades_per_day

\* update: the machine after the call and the row returned
trader_update(m, cfg, snap) ==
    IF ~is_trading_time(snap.ts)
    THEN [m |-> m, row |-> create_wait_plan(snap.ts)]
    ELSE IF LimitReached(m, cfg) /\ m.current_plan.status \notin {"HOLD", "TRIM"}
    THEN [m |-> m, row |-> create_wait_plan(snap.ts)]
    ELSE LET status == m.current_plan.status
             after == IF status = "WAIT" THEN handle_wait(m, snap)
                      ELSE IF status = "WATCH" THEN handle_watch(m, snap)
                      ELSE IF status = "ARMED" THEN handle_armed(m, snap)
                      ELSE IF status = "ENTER" THEN handle_enter(m, snap)
                      ELSE IF status \in {"HOLD", "TRIM"} THEN handle_position(m, snap)
                      ELSE handle_exit(m, snap)
         IN  [m |-> after, row |-> after.current_plan]

\* the machine made of the variables
Machine ==
    [current_plan |-> current_plan, trades_today |-> trades_today,
     plan_history |-> plan_history, reviews |-> reviews, setup_state |-> setup_state]

\* no row returned yet
NoRow == [status |-> "none", ts |-> None]

\* the explored part: confirmation counts and holds stay within their bounds
WithinBounds(m) ==
    /\ m.setup_state.r1_confirm <= MaxConfirm
    /\ m.setup_state.s1_confirm <= MaxConfirm
    /\ m.setup_state.yc_confirm <= MaxConfirm
    /\ m.setup_state.r1_reject_confirm <= MaxConfirm
    /\ m.current_plan.bars_since_entry <= MaxBarsHeld

\* SimTradeStateMachine.__init__ with max_trades_per_day = n
InitMachine(n) ==
    /\ current_plan = reset_state.current_plan
    /\ trades_today = reset_state.trades_today
    /\ plan_history = reset_state.plan_history
    /\ reviews = reset_state.reviews
    /\ setup_state = reset_state.setup_state
    /\ config = [max_trades_per_day |-> n]
    /\ returned = NoRow
    /\ op = "init"
    /\ prev_close = None
    /\ target_tests = 0
    /\ fed = <<>>

\* the bar reaches the plan's target level and closes short of it
TargetTested(plan, snap) ==
    /\ plan.target_underlying # NoTarget
    /\ \/ /\ plan.direction = "CALL"
          /\ snap.high >= plan.target_underlying.level
          /\ snap.close < plan.target_underlying.level
       \/ /\ plan.direction = "PUT"
          /\ snap.low <= plan.target_underlying.level
          /\ snap.close > plan.target_underlying.level

\* update reaches _handle_position
PositionManaged(m, snap) ==
    is_trading_time(snap.ts) /\ m.current_plan.status \in {"HOLD", "TRIM"}

\* update reaches detect_best_setup: inside the trade window, below the daily
\* limit, with a plan in WAIT, WATCH or ARMED
DetectorsRun(m, cfg, snap) ==
    /\ is_trading_time(snap.ts)
    /\ ~LimitReached(m, cfg)
    /\ m.current_plan.status \in {"WAIT", "WATCH", "ARMED"}

\* update(snap) on the machine
Apply(snap) ==
    /\ \E r \in {trader_update(Machine, config, snap)} :
             /\ WithinBounds(r.m)
             /\ current_plan' = r.m.current_plan
             /\ trades_today' = r.m.trades_today
             /\ plan_history' = r.m.plan_history
             /\ reviews' = r.m.reviews
             /\ setup_state' = r.m.setup_state
             /\ returned' = [status |-> r.row.status, ts |-> r.row.ts]
             /\ prev_close' = IF DetectorsRun(Machine, config, snap) THEN snap.close
                              ELSE IF r.m.current_plan.status \in {"WAIT", "WATCH", "ARMED"}
                              THEN prev_close
                              ELSE None
             /\ target_tests' =
                    IF r.m.current_plan.status \notin {"HOLD", "TRIM"} THEN 0
                    ELSE IF PositionManaged(Machine, snap) /\ TargetTested(current_plan, snap)
                    THEN Min(target_tests + 1, max_target_attempts)
                    ELSE target_tests
    /\ op' = "update"
    /\ UNCHANGED <<config, levels>>

\* one call of update(snapshot)
Update ==
    /\ \E snap \in SnapshotsFor(current_plan.status) : Apply(snap)
    /\ UNCHANGED fed

\* the levels of the replayed scenario: R1 = 624.50, no other level
ScenarioLevels == [R1 |-> 62450, R2 |-> None, S1 |-> None, S2 |-> None, YC |-> None]

\* the closes of the scenario's bars, and the minute of its first bar (09:45)
ScenarioCloses == <<62420, 62435, 62455, 62470>>

ScenarioStart == 9 * 60 + 45

\* the snapshots offered at each minute of the replay: the scenario's closes
\* and one well beyond R1, with trend_1m up, breakout_quality pass and
\* rvol_state high (behavior is unset, which the model writes "chop": no
\* detector and no exit rule reads it as anything), and the last one with
\* trend_1m down as well
ScenarioSnapshots(ts) ==
    {Snapshot(ts, c, "none", "up", "chop", "pass", "high", FALSE) :
        c \in {ScenarioCloses[i] : i \in DOMAIN ScenarioCloses} \cup {62490}}
    \cup {Snapshot(ts, 62490, "none", "down", "chop", "pass", "high", FALSE)}

\* one call of update(snapshot) of the replay, one minute after the last
Replay ==
    /\ Len(fed) <= Len(ScenarioCloses)
    /\ \E snap \in ScenarioSnapshots(ScenarioStart + Len(fed)) :
          /\ Apply(snap)
          /\ fed' = Append(fed, [close |-> snap.close, trend_1m |-> snap.trend_1m,
                                 status |-> returned'.status])

\* one call of reset_daily()
ResetDaily ==
    /\ current_plan' = reset_state.current_plan
    /\ trades_today' = reset_state.trades_today
    /\ plan_history' = reset_state.plan_history
    /\ reviews' = reset_state.reviews
    /\ setup_state' = reset_state.setup_state
    /\ returned' = NoRow
    /\ op' = "reset_daily"
    /\ prev_close' = None
    /\ target_tests' = 0
    /\ UNCHANGED <<config, levels, fed>>

(***************************************************************************)
(* sim_trader_service (services/sim_trader_service.py): the module-level   *)
(* cache _traders and the calls that go through it.  Every ticker is       *)
(* driven by one agent, which makes its calls one after the other; the     *)
(* agents of different tickers interleave between get_trader and update.   *)
(***************************************************************************)
Tickers == {"TSLA", "QQQ"}

MaxServiceUpdates == 2

\* create_sim_trader(ticker, None): a machine in its initial state
create_sim_trader == reset_state

\* get_trader handing every new ticker the first machine made
get_trader_Shared(tr, ms, ticker) ==
    IF ticker \in DOMAIN tr THEN [traders |-> tr, machines |-> ms, ref |-> tr[ticker]]
    ELSE IF ms # <<>> THEN [traders |-> tr @@ (ticker :> 1), machines |-> ms, ref |-> 1]
    ELSE [traders |-> tr @@ (ticker :> 1),
          machines |-> <<create_sim_trader>>, ref |-> 1]

\* get_trader: the cache and the machines after the call, and the machine
\* returned
get_trader(tr, ms, ticker) ==
    IF ticker \in DOMAIN tr THEN [traders |-> tr, machines |-> ms, ref |-> tr[ticker]]
    ELSE [traders |-> tr @@ (ticker :> Len(ms) + 1),
          machines |-> Append(ms, create_sim_trader), ref |-> Len(ms) + 1]

\* no call of the service yet
NoCall == [op |-> "none", ticker |-> "none"]

NoService ==
    /\ traders = <<>>
    /\ machines = <<>>
    /\ agents = [t \in Tickers |-> [pc |-> "idle", ref |-> 0, updates |-> 0]]
    /\ svc_call = NoCall

\* get_trade_plan, its first steps: the snapshot is built and get_trader
\* returns the ticker's machine
GetTrader(t) ==
    /\ agents[t].pc = "idle"
    /\ agents[t].updates < MaxServiceUpdates
    /\ \E r \in {get_trader(traders, machines, t)} :
          /\ traders' = r.traders
          /\ machines' = r.machines
          /\ agents' = [agents EXCEPT ![t].pc = "got", ![t].ref = r.ref]
    /\ svc_call' = [op |-> "get_trader", ticker |-> t]

\* get_trade_plan, the rest: trader.update(snapshot) on the machine held,
\* one minute after the ticker's last snapshot
UpdateTrader(t) ==
    /\ agents[t].pc = "got"
    /\ \E snap \in ScenarioSnapshots(ScenarioStart + agents[t].updates) :
          machines' = [machines EXCEPT ![agents[t].ref] =
                                            trader_update(@, config, snap).m]
    /\ agents' = [agents EXCEPT ![t].pc = "idle", ![t].updates = @ + 1]
    /\ svc_call' = [op |-> "update", ticker |-> t]
    /\ UNCHANGED traders

\* reset_trader(ticker), between two calls of the ticker's agent
ResetTrader(t) ==
    /\ agents[t].pc = "idle"
    /\ t \in DOMAIN traders
    /\ machines[traders[t]] # reset_state
    /\ machines' = [machines EXCEPT ![traders[t]] = reset_state]
    /\ svc_call' = [op |-> "reset_trader", ticker |-> t]
    /\ UNCHANGED <<traders, agents>>

(***************************************************************************)
(* MemoryCache (apps/api/src/cache.py).  Times and TTLs are in seconds.    *)
(***************************************************************************)
CacheKeys == {"k1", "k2"}

\* the values stored (JSON documents in the API, numbers here)
CacheValues == {10, 20}

\* the ttl argument of set (None: the default)
CacheTtls == {None, 0, 1}

\* MemoryCache(default_ttl=...)
default_ttl == 2

\* last reading of the clock
MaxTime == 4

NoEntry == [data |-> None, expires_at |-> None]

NoSet == [value |-> None, ttl |-> None, at |-> None]

\* a get that treats an entry as expired from its expiry time on
cache_get_ExpiresEarly(c, key, t) ==
    IF c[key] = NoEntry THEN [cache |-> c, value |-> None]
    ELSE IF t >= c[key].expires_at
    THEN [cache |-> [c EXCEPT ![key] = NoEntry], value |-> None]
    ELSE [cache |-> c, value |-> c[key].data]

\* MemoryCache.get at time t: the dict after the call and the value returned
cache_get(c, key, t) ==
    IF c[key] = NoEntry THEN [cache |-> c, value |-> None]
    ELSE IF t > c[key].expires_at
    THEN [cache |-> [c EXCEPT ![key] = NoEntry], value |-> None]
    ELSE [cache |-> c, value |-> c[key].data]

\* MemoryCache.set at time t
cache_set(c, key, value, ttl, t) ==
    LET used == IF ttl # None THEN ttl ELSE default_ttl
    IN  [c EXCEPT ![key] = [data |-> value, expires_at |-> t + used]]

\* MemoryCache.delete
cache_delete(c, key) == [c EXCEPT ![key] = NoEntry]

\* MemoryCache.clear
cache_clear(c) == [k \in DOMAIN c |-> NoEntry]

\* MemoryCache.cleanup_expired at time t: the dict after the call and the
\* number of entries removed
cleanup_expired(c, t) ==
    LET expired_keys == {k \in DOMAIN c : c[k] # NoEntry /\ t > c[k].expires_at}
    IN  [cache |-> [k \in DOMAIN c |-> IF k \in expired_keys THEN NoEntry ELSE c[k]],
         count |-> Cardinality(expired_keys)]

\* MemoryCache.__init__, before any call
NoCache ==
    /\ cache = [k \in CacheKeys |-> NoEntry]
    /\ now = 0
    /\ cache_call = [op |-> "none", key |-> "none", at |-> None, ret |-> None]
    /\ last_set = [k \in CacheKeys |-> NoSet]

CacheGet ==
    /\ \E key \in CacheKeys :
          \E r \in {cache_get(cache, key, now)} :
              /\ cache' = r.cache
              /\ cache_call' = [op |-> "get", key |-> key, at |-> now, ret |-> r.value]
    /\ UNCHANGED <<now, last_set>>

CacheSet ==
    /\ \E key \in CacheKeys, value \in CacheValues, ttl \in CacheTtls :
          /\ cache' = cache_set(cache, key, value, ttl, now)
          /\ cache_call' = [op |-> "set", key |-> key, at |-> now, ret |-> None]
          /\ last_set' = [last_set EXCEPT ![key] =
                              [value |-> value,
                               ttl |-> IF ttl # None THEN ttl ELSE default_ttl,
                               at |-> now]]
    /\ UNCHANGED now

CacheDelete ==
    /\ \E key \in CacheKeys :
          /\ cache' = cache_delete(cache, key)
          /\ cache_call' = [op |-> "delete", key |-> key, at |-> now, ret |-> None]
          /\ last_set' = [last_set EXCEPT ![key] = NoSet]
    /\ UNCHANGED now

CacheClear ==
    /\ cache' = cache_clear(cache)
    /\ cache_call' = [op |-> "clear", key |-> "none", at |-> now, ret |-> None]
    /\ last_set' = [k \in CacheKeys |-> NoSet]
    /\ UNCHANGED now

CleanupExpired ==
    /\ \E r \in {cleanup_expired(cache, now)} :
          /\ cache' = r.cache
          /\ cache_call' = [op |-> "cleanup_expired", key |-> "none", at |-> now, ret |-> r.count]
    /\ UNCHANGED <<now, last_set>>

\* a second goes by
Tick ==
    /\ now < MaxTime
    /\ now' = now + 1
    /\ UNCHANGED <<cache, cache_call, last_set>>

(***************************************************************************)
(* TwelveDataWebSocket (apps/api/src/websocket_manager.py).  A call of     *)
(* subscribe or unsubscribe on an open socket waits for its send; the      *)
(* connection may be lost and re-established, and price messages may       *)
(* arrive, while it waits.                                                 *)
(***************************************************************************)
\* the symbols callers pass, and the symbols of the price messages
SymbolInputs == {"qqq", "QQQ", "TSLA"}

Symbols == {"QQQ", "TSLA"}

\* the price field of a price message (0: no usable price)
MessagePrices == {0, 100}

\* connections established by the connection manager
MaxConnections == 2

\* symbol.upper()
upper(symbol) == IF symbol = "qqq" THEN "QQQ" ELSE symbol

NoSocketCall == [op |-> "none", symbol |-> "none", epoch |-> 0]

NeverCalled == [state |-> "none", online |-> FALSE]

\* a subscribe on a closed socket that forgets the symbol
pending_subscription_Dropped(symbols, symbol) == symbols

\* subscribe on a closed socket: the symbol is kept for the next connection
pending_subscription(symbols, symbol) == symbols \cup {symbol}

\* _connection_manager: the symbols of the subscribe message sent on a new
\* connection (none when nothing is subscribed)
resubscribe_message(symbols) == symbols

\* _handle_message on a price message
handle_price_message(prices, symbol, price) ==
    IF symbol \in Symbols /\ price > 0 THEN [prices EXCEPT ![symbol] = price] ELSE prices

\* get_latest_price
get_latest_price(symbol) == latest_prices[upper(symbol)]

\* TwelveDataWebSocket.__init__
NoSocket ==
    /\ ws_open = FALSE
    /\ ws_epoch = 0
    /\ subscribed_symbols = {}
    /\ latest_prices = [s \in Symbols |-> None]
    /\ ws_call = NoSocketCall
    /\ connect_msg = {}
    /\ last_ok = [s \in Symbols |-> NeverCalled]

\* subscribe(symbol), up to its return or to the await of the send
Subscribe ==
    /\ ws_call = NoSocketCall
    /\ \E input \in SymbolInputs :
          LET symbol == upper(input)
          IN  IF symbol \in subscribed_symbols
              THEN /\ last_ok' = [last_ok EXCEPT ![symbol] =
                                      [state |-> "subscribed", online |-> ws_open]]
                   /\ UNCHANGED <<subscribed_symbols, ws_call>>
              ELSE IF ~ws_open
              THEN /\ subscribed_symbols' = pending_subscription(subscribed_symbols, symbol)
                   /\ last_ok' = [last_ok EXCEPT ![symbol] =
                                      [state |-> "subscribed", online |-> FALSE]]
                   /\ UNCHANGED ws_call
              ELSE /\ ws_call' = [op |-> "subscribe", symbol |-> symbol, epoch |-> ws_epoch]
                   /\ UNCHANGED <<subscribed_symbols, last_ok>>
    /\ UNCHANGED <<ws_open, ws_epoch, latest_prices, connect_msg>>

\* unsubscribe(symbol), up to its return or to the await of the send
Unsubscribe ==
    /\ ws_call = NoSocketCall
    /\ \E input \in SymbolInputs :
          LET symbol == upper(input)
          IN  IF symbol \notin subscribed_symbols
              THEN /\ last_ok' = [last_ok EXCEPT ![symbol] =
                                      [state |-> "unsubscribed", online |-> ws_open]]
                   /\ UNCHANGED <<subscribed_symbols, ws_call>>
              ELSE IF ~ws_open
              THEN /\ subscribed_symbols' = subscribed_symbols \ {symbol}
                   /\ last_ok' = [last_ok EXCEPT ![symbol] =
                                      [state |-> "unsubscribed", online |-> FALSE]]
                   /\ UNCHANGED ws_call
              ELSE /\ ws_call' = [op |-> "unsubscribe", symbol |-> symbol, epoch |-> ws_epoch]
                   /\ UNCHANGED <<subscribed_symbols, last_ok>>
    /\ UNCHANGED <<ws_open, ws_epoch, latest_prices, connect_msg>>

\* the send of the waiting call went out on its connection: the call
\* finishes and returns True
SendDone ==
    /\ ws_call # NoSocketCall
    /\ ws_open /\ ws_call.epoch = ws_epoch
    /\ IF ws_call.op = "subscribe"
       THEN /\ subscribed_symbols' = subscribed_symbols \cup {ws_call.symbol}
            /\ last_ok' = [last_ok EXCEPT ![ws_call.symbol] =
                               [state |-> "subscribed", online |-> TRUE]]
            /\ UNCHANGED latest_prices
       ELSE /\ subscribed_symbols' = subscribed_symbols \ {ws_call.symbol}
            /\ latest_prices' = [latest_prices EXCEPT ![ws_call.symbol] = None]
            /\ last_ok' = [last_ok EXCEPT ![ws_call.symbol] =
                               [state |-> "unsubscribed", online |-> TRUE]]
    /\ ws_call' = NoSocketCall
    /\ UNCHANGED <<ws_open, ws_epoch, connect_msg>>

\* the send of the waiting call raised, its connection being closed: the
\* call returns False
SendFailed ==
    /\ ws_call # NoSocketCall
    /\ ~ws_open \/ ws_call.epoch # ws_epoch
    /\ ws_call' = NoSocketCall
    /\ UNCHANGED <<ws_open, ws_epoch, subscribed_symbols, latest_prices, connect_msg, last_ok>>

\* the connection is closed
ConnectionLost ==
    /\ ws_open
    /\ ws_open' = FALSE
    /\ UNCHANGED <<ws_epoch, subscribed_symbols, latest_prices, ws_call, connect_msg, last_ok>>

\* _connection_manager: a connection is established and the symbols kept
\* are subscribed again
Connect ==
    /\ ~ws_open
    /\ ws_epoch < MaxConnections
    /\ ws_open' = TRUE
    /\ ws_epoch' = ws_epoch + 1
    /\ connect_msg' = resubscribe_message(subscribed_symbols)
    /\ UNCHANGED <<subscribed_symbols, latest_prices, ws_call, last_ok>>

\* a price message is read from the open connection
PriceMessage ==
    /\ ws_open
    /\ \E input \in SymbolInputs, price \in MessagePrices :
          latest_prices' = handle_price_message(latest_prices, upper(input), price)
    /\ UNCHANGED <<ws_open, ws_epoch, subscribed_symbols, ws_call, connect_msg, last_ok>>

(***************************************************************************)
(* CooldownManager (services/llm_service.py).  Times are whole units of    *)
(* the wall clock; the cooldowns and the day are scaled down, keeping      *)
(* hard_cooldown < soft_cooldown < Day.                                    *)
(***************************************************************************)
hard_cooldown == 1
soft_cooldown == 2
Day == 4
max_calls_per_day == 2
MaxClock == 4
MaxTriggers == 3

\* the trigger events a caller passes: one hard type and one soft type
TriggerEvents ==
    {[event_type |-> "regime_shift", severity |-> "hard"],
     [event_type |-> "volume_spike", severity |-> "soft"]}

EventTypes == {e.event_type : e \in TriggerEvents}

NoCooldownCall == [op |-> "none", symbol |-> "", event_type |-> "", severity |-> "", at |-> None, ret |-> FALSE]

\* _cleanup_daily_calls: the call times later than now - 24 hours
cleanup_daily_calls(times, t) == SelectSeq(times, LAMBDA x : x > t - Day)

\* can_trigger: every event is given the hard cooldown
cooldown_AlwaysHard(event) == hard_cooldown

\* can_trigger: the cooldown of an event
cooldown(event) == IF event.severity = "hard" THEN hard_cooldown ELSE soft_cooldown

\* _add_pending: the event joins the list unless its type is in it
add_pending(pending, event) ==
    IF \E i \in DOMAIN pending : pending[i] = event.event_type
    THEN pending
    ELSE Append(pending, event.event_type)

\* CooldownManager.__init__
NoCooldown ==
    /\ last_triggers = [s \in Symbols |-> [t \in EventTypes |-> None]]
    /\ daily_calls = [s \in Symbols |-> <<>>]
    /\ pending_events = [s \in Symbols |-> <<>>]
    /\ clock = 0
    /\ cd_call = NoCooldownCall
    /\ trigger_log = <<>>

\* can_trigger(symbol, event)
CanTrigger ==
    \E symbol \in Symbols, event \in TriggerEvents :
      \E kept \in {cleanup_daily_calls(daily_calls[symbol], clock)} :
        /\ daily_calls' = [daily_calls EXCEPT ![symbol] = kept]
        /\ IF Len(kept) >= max_calls_per_day
           THEN /\ cd_call' = [op |-> "can_trigger", symbol |-> symbol, event_type |-> event.event_type,
                               severity |-> event.severity, at |-> clock, ret |-> FALSE]
                /\ UNCHANGED pending_events
           ELSE \E last_time \in {last_triggers[symbol][event.event_type]} :
                  IF last_time # None /\ clock - last_time < cooldown(event)
                  THEN /\ pending_events' = [pending_events EXCEPT ![symbol] = add_pending(@, event)]
                       /\ cd_call' = [op |-> "can_trigger", symbol |-> symbol, event_type |-> event.event_type,
                                      severity |-> event.severity, at |-> clock, ret |-> FALSE]
                  ELSE /\ cd_call' = [op |-> "can_trigger", symbol |-> symbol, event_type |-> event.event_type,
                                      severity |-> event.severity, at |-> clock, ret |-> TRUE]
                       /\ UNCHANGED pending_events
        /\ UNCHANGED <<last_triggers, clock, trigger_log>>

\* record_trigger(symbol, event)
RecordTrigger ==
    /\ Len(trigger_log) < MaxTriggers
    /\ \E symbol \in Symbols, event \in TriggerEvents :
         /\ last_triggers' = [last_triggers EXCEPT ![symbol][event.event_type] = clock]
         /\ daily_calls' = [daily_calls EXCEPT ![symbol] = Append(@, clock)]
         /\ trigger_log' = Append(trigger_log, [symbol |-> symbol, event_type |-> event.event_type, at |-> clock])
         /\ cd_call' = [op |-> "record_trigger", symbol |-> symbol, event_type |-> event.event_type,
                        severity |-> event.severity, at |-> clock, ret |-> FALSE]
    /\ UNCHANGED <<pending_events, clock>>

\* get_pending_events(symbol): the list is handed out and emptied
GetPendingEvents ==
    /\ \E symbol \in Symbols :
         /\ pending_events' = [pending_events EXCEPT ![symbol] = <<>>]
         /\ cd_call' = [op |-> "get_pending_events", symbol |-> symbol, event_type |-> "",
                        severity |-> "", at |-> clock, ret |-> FALSE]
    /\ UNCHANGED <<last_triggers, daily_calls, clock, trigger_log>>

\* datetime.now() moves on; the caller has taken the last call's result
ClockTick ==
    /\ clock < MaxClock
    /\ clock' = clock + 1
    /\ cd_call' = NoCooldownCall
    /\ UNCHANGED <<last_triggers, daily_calls, pending_events, trigger_log>>

(***************************************************************************)
(* generate_playbook (playbook.py).  Prices and ATR are in thousandths;    *)
(* round(x, 2) rounds to the nearest ten thousandths (the inputs below     *)
(* produce no tie).                                                        *)
(***************************************************************************)
\* round(x, 2) on a non-negative amount of thousandths
Round2(x) == ((x + 5) \div 10) * 10

\* the zone lists, market regimes, closes and ATR readings of a call
PbSupportLists ==
    {<<>>, <<[low |-> 94000, high |-> 96000]>>,
     <<[low |-> 94000, high |-> 96000], [low |-> 88000, high |-> 90000]>>}

PbResistanceLists ==
    {<<>>, <<[low |-> 104000, high |-> 106000]>>,
     <<[low |-> 110000, high |-> 112000], [low |-> 104000, high |-> 106000]>>}

PbRegimes == {"uptrend", "downtrend", "range"}

PbPrices == {92000, 97000, 100000, 103000, 105000}

PbAtrs == {0, 4, 1000, 3000}

\* eh_context: None, or the premarket regime with levels.yc and levels.gap
NoEHContext == [premarket_regime |-> "none", yc |-> 0, gap |-> 0]

EHContexts ==
    {NoEHContext} \cup
    [premarket_regime : {"gap_fill_bias", "gap_and_go", "range_day_setup"},
     yc : {98000, 100000, 102000}, gap : {0 - 2000, 400, 2000}]

PlaybookInputs ==
    [regime : PbRegimes, support : PbSupportLists, resistance : PbResistanceLists,
     atr : PbAtrs, current_price : PbPrices, eh_context : EHContexts]

NoZoneFound == [low |-> None, high |-> None]

\* the bars given to build_eh_context, as far as it reads them for the
\* regime and the levels yc and gap: the close of yesterday's last regular
\* bar (yesterday_bars is not empty), the number of yesterday's afterhours
\* bars, the number of today's premarket bars and the close of the last one
NoBars == [yc |-> None, afterhours |-> 0, premarket |-> 0, premarket_close |-> None]

EHBars ==
    [yc : {150000, 152000}, afterhours : {0, 5},
     premarket : {0, 9, 10}, premarket_close : {146000, 150400, 154000}]

\* the playbook arguments that go with them: the price is the last premarket
\* close or yesterday's close, ATR is 1
EHPlaybookInputs ==
    [regime : PbRegimes, support : PbSupportLists, resistance : PbResistanceLists,
     atr : {1000}, current_price : {150000, 154000}, eh_context : {NoEHContext}]

\* extract_eh_levels_complete / _partial / _minimal: gap is set from the
\* premarket in complete mode only
eh_gap(bars, data_quality) ==
    IF data_quality = "complete" /\ bars.premarket > 0
    THEN bars.premarket_close - bars.yc ELSE 0

\* build_eh_context: data quality, then regime and levels
build_eh_context(bars) ==
    LET data_quality == IF bars.premarket >= 10 THEN "complete"
                        ELSE IF bars.afterhours >= 5 THEN "partial"
                        ELSE "minimal"
    IN  [premarket_regime |-> IF data_quality = "complete" THEN "range_day_setup"
                              ELSE "unavailable",
         yc |-> bars.yc, gap |-> eh_gap(bars, data_quality)]

\* _calculate_target
calculate_target(entry, direction, atr, twice_multiplier) ==
    IF direction = "long" THEN Round2(entry + (atr * twice_multiplier) \div 2)
    ELSE Round2(entry - (atr * twice_multiplier) \div 2)

\* _calculate_invalidation (multiplier 0.5)
calculate_invalidation(entry, direction, atr) ==
    IF direction = "long" THEN Round2(entry - atr \div 2)
    ELSE Round2(entry + atr \div 2)

\* _get_nearest_zone_above
get_nearest_zone_above(price, zones) ==
    LET above == {i \in DOMAIN zones : zones[i].low > price}
    IN  IF above = {} THEN NoZoneFound
        ELSE zones[CHOOSE i \in above : \A j \in above : zones[i].low <= zones[j].low]

\* _get_nearest_zone_below
get_nearest_zone_below(price, zones) ==
    LET below == {i \in DOMAIN zones : zones[i].high < price}
    IN  IF below = {} THEN NoZoneFound
        ELSE zones[CHOOSE i \in below : \A j \in below : zones[i].high >= zones[j].high]

\* PlaybookPlan (the risk key is not modelled)
Plan(name, condition, level, target, invalidation) ==
    [name |-> name, condition |-> condition, level |-> Round2(level),
     target |-> Round2(target), invalidation |-> Round2(invalidation)]

\* the plans of the uptrend branch
UptrendPlans(in) ==
    LET sup == get_nearest_zone_below(in.current_price, in.support)
        res == get_nearest_zone_above(in.current_price, in.resistance)
    IN  (IF sup # NoZoneFound
         THEN <<Plan("Plan A", "condition.pullback_to_support", sup.high,
                     IF res # NoZoneFound THEN res.low
                     ELSE calculate_target(sup.high, "long", in.atr, 4),
                     calculate_invalidation(sup.high, "long", in.atr))>>
         ELSE <<>>)
        \o (IF res # NoZoneFound
            THEN <<Plan("Plan B", "condition.breakout_continuation", res.high,
                        calculate_target(res.high, "long", in.atr, 3), res.low)>>
            ELSE <<>>)

\* the plans of the downtrend branch
DowntrendPlans(in) ==
    LET sup == get_nearest_zone_below(in.current_price, in.support)
        res == get_nearest_zone_above(in.current_price, in.resistance)
    IN  (IF res # NoZoneFound
         THEN <<Plan("Plan A", "condition.resistance_rejection", res.low,
                     IF sup # NoZoneFound THEN sup.high
                     ELSE calculate_target(res.low, "short", in.atr, 4),
                     calculate_invalidation(res.low, "short", in.atr))>>
         ELSE <<>>)
        \o (IF sup # NoZoneFound
            THEN <<Plan("Plan B", "condition.breakdown_continuation", sup.low,
                        calculate_target(sup.low, "short", in.atr, 3), sup.high)>>
            ELSE <<>>)

\* the plans of the range branch
RangePlans(in) ==
    LET sup == get_nearest_zone_below(in.current_price, in.support)
        res == get_nearest_zone_above(in.current_price, in.resistance)
    IN  (IF sup # NoZoneFound
         THEN <<Plan("Plan A", "condition.support_bounce", sup.high,
                     IF res # NoZoneFound THEN res.low
                     ELSE calculate_target(sup.high, "long", in.atr, 4),
                     sup.low - in.atr \div 2)>>
         ELSE <<>>)
        \o (IF res # NoZoneFound
            THEN <<Plan("Plan B", "condition.resistance_fade", res.low,
                        IF sup # NoZoneFound THEN sup.high
                        ELSE calculate_target(res.low, "short", in.atr, 4),
                        res.high + in.atr \div 2)>>
            ELSE <<>>)

\* the EH part: a gap-fill plan is appended, or the continuation plans are
\* renamed
WithEHContext(in, plans) ==
    LET eh == in.eh_context
        abs_gap == IF eh.gap >= 0 THEN eh.gap ELSE 0 - eh.gap
    IN  IF eh = NoEHContext THEN plans
        ELSE IF eh.premarket_regime = "gap_fill_bias" /\ abs_gap * 2 > in.atr
        THEN IF eh.gap > 0
             THEN Append(plans, Plan("Plan EH", "condition.gap_fill_short", in.current_price,
                                     eh.yc, in.current_price + in.atr \div 2))
             ELSE Append(plans, Plan("Plan EH", "condition.gap_fill_long", in.current_price,
                                     eh.yc, in.current_price - in.atr \div 2))
        ELSE IF eh.premarket_regime = "gap_and_go"
        THEN [i \in DOMAIN plans |->
                IF plans[i].condition \in {"condition.breakout_continuation",
                                           "condition.breakdown_continuation"}
                THEN [plans[i] EXCEPT !.name = "Plan A (EH)"] ELSE plans[i]]
        ELSE plans

\* generate_playbook
generate_playbook(in) ==
    IF in.atr <= 0 THEN <<>>
    ELSE WithEHContext(in,
            IF in.regime = "uptrend" THEN UptrendPlans(in)
            ELSE IF in.regime = "downtrend" THEN DowntrendPlans(in)
            ELSE RangePlans(in))

\* no call of generate_playbook is under way
NoPlaybookCall ==
    /\ pb_in = [regime |-> "range", support |-> <<>>, resistance |-> <<>>,
                atr |-> 0, current_price |-> 100000, eh_context |-> NoEHContext]
    /\ playbook = [done |-> FALSE, plans |-> <<>>]
    /\ eh_bars = NoBars

\* the call generate_playbook(...) on the arguments pb_in
GeneratePlaybook ==
    /\ ~playbook.done
    /\ playbook' = [done |-> TRUE, plans |-> generate_playbook(pb_in)]
    /\ UNCHANGED <<pb_in, eh_bars>>

\* the call build_eh_context(...) on the bars eh_bars, whose result becomes
\* the eh_context of the playbook call that follows
BuildEHContext ==
    /\ ~playbook.done
    /\ eh_bars # NoBars
    /\ pb_in.eh_context = NoEHContext
    /\ pb_in' = [pb_in EXCEPT !.eh_context = build_eh_context(eh_bars)]
    /\ UNCHANGED <<playbook, eh_bars>>

(***************************************************************************)
(* Session segmentation (extended_hours.py).  A bar is its ET date (a day  *)
(* number) and its ET time in minutes of the day.                          *)
(***************************************************************************)
\* the longest stream of bars that is split
MaxStream == 3

\* the times of the bars: 02:00, 04:00, 09:29, 09:30, 15:59, 16:00, 19:59,
\* 20:00 and 21:00
BarMinutes == {120, 240, 569, 570, 959, 960, 1199, 1200, 1260}

StreamBars == [day : {1, 2}, minute : BarMinutes]

\* get_session_type, on the bar's time in minutes
get_session_type(time_minutes) ==
    IF 240 <= time_minutes /\ time_minutes < 570 THEN "premarket"
    ELSE IF 570 <= time_minutes /\ time_minutes < 960 THEN "regular"
    ELSE IF 960 <= time_minutes /\ time_minutes <= 1200 THEN "afterhours"
    ELSE "afterhours"

\* SessionBars()
NoSessionBars ==
    [done |-> FALSE, yesterday_regular |-> <<>>, yesterday_afterhours |-> <<>>,
     today_premarket |-> <<>>, today_regular |-> <<>>]

\* the bars of one date and one session, in the order of the list
BarsOf(bars, day, session) ==
    LET Test(b) == b.day = day /\ get_session_type(b.minute) = session
    IN  SelectSeq(bars, Test)

\* split_bars_by_session (with split_bars_by_day): the last date is today,
\* the one before it yesterday; a single date is today
split_bars_by_session(bars) ==
    LET dates == {bars[i].day : i \in DOMAIN bars}
        today == CHOOSE d \in dates : \A e \in dates : e <= d
        before == dates \ {today}
        yesterday == CHOOSE d \in before : \A e \in before : e <= d
    IN  IF dates = {} THEN [NoSessionBars EXCEPT !.done = TRUE]
        ELSE IF before = {}
        THEN [done |-> TRUE, yesterday_regular |-> <<>>, yesterday_afterhours |-> <<>>,
              today_premarket |-> BarsOf(bars, today, "premarket"),
              today_regular |-> BarsOf(bars, today, "regular")]
        ELSE [done |-> TRUE,
              yesterday_regular |-> BarsOf(bars, yesterday, "regular"),
              yesterday_afterhours |-> BarsOf(bars, yesterday, "afterhours"),
              today_premarket |-> BarsOf(bars, today, "premarket"),
              today_regular |-> BarsOf(bars, today, "regular")]

\* no bars received, nothing split
NoStream ==
    /\ eh_stream = <<>>
    /\ session_bars = NoSessionBars

\* the provider's list grows by one bar, later than the ones before it
ReceiveBar ==
    /\ Len(eh_stream) < MaxStream
    /\ \E b \in StreamBars :
          /\ \A i \in DOMAIN eh_stream :
                \/ eh_stream[i].day < b.day
                \/ eh_stream[i].day = b.day /\ eh_stream[i].minute < b.minute
          /\ eh_stream' = Append(eh_stream, b)
    /\ session_bars' = NoSessionBars

\* the call split_bars_by_session(bars) on the list received so far
SplitBars ==
    /\ ~session_bars.done
    /\ session_bars' = split_bars_by_session(eh_stream)
    /\ UNCHANGED eh_stream

(***************************************************************************)
(* analyze_market (analyze.py), steps 1, 5 and 12: the bars are validated, *)
(* the swing points are clustered into zones (structure.cluster_zones) and *)
(* the report carries the timeframe and the zones.  Prices and ATR are in  *)
(* hundredths, scores in hundredths.                                       *)
(***************************************************************************)
\* the swing highs and lows found in the bars: index and price
SwingHighs ==
    {[index |-> 12, price |-> 10000], [index |-> 35, price |-> 10040],
     [index |-> 44, price |-> 10120], [index |-> 47, price |-> 10300]}

SwingLows ==
    {[index |-> 12, price |-> 9000], [index |-> 35, price |-> 9500],
     [index |-> 44, price |-> 9530]}

\* len(bars) - 1 of the calls explored
current_bar_index == 50

ZoneAtrs == {0, 100, 200}

Timeframes == {"1m", "5m", "1d", "15m"}

MaxZonesSet == {1, 2, 5}

ZoneInputs ==
    [swing_highs : SUBSET SwingHighs, swing_lows : SUBSET SwingLows, atr : ZoneAtrs,
     timeframe : Timeframes, max_zones : MaxZonesSet, enough_bars : BOOLEAN]

\* padding = atr * padding_mult, by timeframe
padding(atr, timeframe) ==
    IF timeframe = "1m" THEN (atr * 35) \div 100
    ELSE IF timeframe = "5m" THEN (atr * 40) \div 100
    ELSE (atr * 50) \div 100

bin_width(atr) == atr \div 2

\* the clusters of _cluster_points: the points sorted by price, a new cluster
\* at every gap wider than bin_width
Clusters(points, atr) ==
    LET Joined(p, q) ==
            \A a, b \in points :
                (/\ Min(p.price, q.price) <= a.price /\ a.price < b.price
                 /\ b.price <= Max(p.price, q.price)
                 /\ ~\E c \in points : a.price < c.price /\ c.price < b.price)
                    => b.price - a.price <= bin_width(atr)
    IN  {{q \in points : Joined(p, q)} : p \in points}

\* the Zone of a cluster; the score is rounded to 2 places (the inputs above
\* produce no tie)
ZoneOf(cluster, atr, timeframe) ==
    LET low == CHOOSE p \in cluster : \A q \in cluster : p.price <= q.price
        high == CHOOSE p \in cluster : \A q \in cluster : p.price >= q.price
        latest_point == CHOOSE p \in cluster : \A q \in cluster : p.index >= q.index
        touches == Cardinality(cluster)
        bars_since_last == IF current_bar_index > 0
                           THEN current_bar_index - latest_point.index ELSE 0
        rejections == (touches * 8) \div 10
        score == 600 * Min(touches, 5) + 600 * Min(rejections, 5)
                    + (IF atr > 0 THEN 1250 ELSE 0)
                    + 15 * Max(100 - bars_since_last, 0)
    IN  [low |-> low.price - padding(atr, timeframe),
         high |-> high.price + padding(atr, timeframe),
         score |-> (score + 50) \div 100, touches |-> touches, rejections |-> rejections]

\* _cluster_points without the sort by score: the zones in price order
cluster_points_Unsorted(points, atr, timeframe, max_zones) ==
    LET zones == {ZoneOf(c, atr, timeframe) : c \in Clusters(points, atr)}
        Rank(z) == Cardinality({y \in zones : y.low < z.low}) + 1
        n == Min(Cardinality(zones), max_zones)
    IN  [i \in 1..n |-> CHOOSE z \in zones : Rank(z) = i]

\* _cluster_points: the zones in price order, stably sorted by score,
\* highest first, cut to max_zones
cluster_points(points, atr, timeframe, max_zones) ==
    LET zones == {ZoneOf(c, atr, timeframe) : c \in Clusters(points, atr)}
        Before(y, z) == y.score > z.score \/ (y.score = z.score /\ y.low < z.low)
        Rank(z) == Cardinality({y \in zones : Before(y, z)}) + 1
        n == Min(Cardinality(zones), max_zones)
    IN  [i \in 1..n |-> CHOOSE z \in zones : Rank(z) = i]

\* cluster_zones
cluster_zones(swing_highs, swing_lows, atr, timeframe, max_zones) ==
    IF atr <= 0 THEN [support |-> <<>>, resistance |-> <<>>]
    ELSE [support |-> cluster_points(swing_lows, atr, timeframe, max_zones),
          resistance |-> cluster_points(swing_highs, atr, timeframe, max_zones)]

\* no call made
NoReport == [done |-> FALSE, error |-> "none", tf |-> "none",
             zones |-> [support |-> <<>>, resistance |-> <<>>]]

NoZoneCall ==
    /\ zn_in = [swing_highs |-> {}, swing_lows |-> {}, atr |-> 0, timeframe |-> "1d",
                max_zones |-> 5, enough_bars |-> TRUE]
    /\ zn_out = NoReport

\* analyze_market(bars, timeframe = zn_in.timeframe, params): _validate_bars
\* raises ValueError on too few bars, otherwise the zones are clustered and
\* the report is assembled with tf = timeframe
AnalyzeZones ==
    /\ ~zn_out.done
    /\ zn_out' = IF ~zn_in.enough_bars
                 THEN [NoReport EXCEPT !.done = TRUE, !.error = "ValueError"]
                 ELSE [done |-> TRUE, error |-> "none", tf |-> zn_in.timeframe,
                       zones |-> cluster_zones(zn_in.swing_highs, zn_in.swing_lows,
                                               zn_in.atr, zn_in.timeframe, zn_in.max_zones)]
    /\ UNCHANGED zn_in

(***************************************************************************)
(* analyze_market (analyze.py), steps 7 and 9: the bars of the call are    *)
(* fed from index 0 to the FSM of the AnalysisState, then the timeline is  *)
(* updated once with the state the FSM ends in.                            *)
(***************************************************************************)
\* number of bars handed to one call, and number of calls made with the state
BarsPerCall == 3

MaxCalls == 2

\* features['rvol'][i] (tenths) and features['atr'][i] of a bar
AnalyzeRvols == {NaN, 20}

AnalyzeAtrs == {NaN, 10}

\* the regime, behavior and last-bar context handed to the timeline
AnalyzeBehaviors == {b \in Behaviors : b.probabilities.accumulation = 60}

AnalyzeContexts == {cx \in BarContexts : cx.atr = 0}

\* rvol = features['rvol'][i]; if np.isnan(rvol): rvol = 1.0
FedRvol(rvol) == IF isnan(rvol) THEN 10 ELSE rvol

\* atr_i = features['atr'][i]; if np.isnan(atr_i): atr_i = bar.h - bar.l
FedAtr(bar, atr) == IF isnan(atr) THEN bar.h - bar.l ELSE atr

\* signals.append(signal) if signal
Collect(sigs, sig) == IF sig # NoSignal THEN Append(sigs, sig) ELSE sigs

\* no call made yet
InitAnalysis ==
    /\ pc = "ready"
    /\ calls = 0
    /\ signals = <<>>
    /\ fresh_fsm = NewFSM(2)
    /\ fresh_signals = <<>>
    /\ transitions = {}
    /\ valid_rvol = FALSE
    /\ report_timeline = <<>>

\* the bar before the last one, with its features; the bars before it give
\* no soft event
HistoryContexts ==
    {cx \in BarContexts : cx.atr = 0 \/ (cx.rvol = 10 /\ cx.result = 10)}

\* TimelineManager.get_events(limit): the stored events, newest first
get_events(events, limit) ==
    [i \in 1..Min(Len(events), limit) |-> events[Len(events) + 1 - i]]

\* the historical scan, one bar: the first soft event of generate_soft_events
\* called with the call's current ATR and no previous state
HistoricalEvent(bx, idx, atr) ==
    LET evs == generate_soft_events([bx EXCEPT !.atr = atr, !.bar_idx = idx], NoState)
    IN  IF evs = <<>> THEN <<>> ELSE <<Event(evs[1][1], evs[1][2], idx)>>

\* historical_events: the scan of the last bars, oldest first
historical_events(cx, hx) ==
    HistoricalEvent(hx, cx.bar_idx - 1, cx.atr) \o HistoricalEvent(cx, cx.bar_idx, cx.atr)

\* the top-up loop: a candidate is appended when its type is new to the
\* timeline and the timeline holds fewer than 8 events
RECURSIVE TopUp(_, _)
TopUp(all, cands) ==
    IF cands = <<>> THEN all
    ELSE LET he == Head(cands)
             seen_types == {all[i].event_type : i \in DOMAIN all}
         IN  IF he.event_type \notin seen_types /\ Len(all) < 8
             THEN TopUp(Append(all, he), Tail(cands))
             ELSE TopUp(all, Tail(cands))

\* report.timeline: the stored events topped up with the last historical
\* soft events, newest first, when fewer than 5 are stored
merge_timeline(all, historical) ==
    LET last5 == SubSeq(historical, Max(1, Len(historical) - 4), Len(historical))
        cands == [i \in DOMAIN last5 |-> last5[Len(last5) + 1 - i]]
    IN  IF Len(all) < 5 /\ historical # <<>> THEN TopUp(all, cands) ELSE all

\* analyze_market is entered with the AnalysisState of the earlier calls;
\* create_initial_state(params) is what a call without a state starts from
AnalyzeBegin ==
    /\ pc = "ready"
    /\ calls < MaxCalls
    /\ pc' = "loop"
    /\ calls' = calls + 1
    /\ bar_index' = 0
    /\ signals' = <<>>
    /\ fresh_fsm' = NewFSM(fsm.confirm_closes)
    /\ fresh_signals' = <<>>
    /\ transitions' = {}
    /\ report_timeline' = <<>>
    /\ UNCHANGED <<fsm, signal, prev_fsm_state, attempt_conf, valid_rvol, tlVars>>

\* one iteration of for i, bar in enumerate(bars)
AnalyzeFeedBar ==
    /\ pc = "loop"
    /\ bar_index < BarsPerCall
    /\ \E bar \in FsmBars, rvol \in AnalyzeRvols, atr \in AnalyzeAtrs :
         \E r \in {fsm_update(fsm, bar, bar_index, FedRvol(rvol), FedAtr(bar, atr))},
            rf \in {fsm_update(fresh_fsm, bar, bar_index, FedRvol(rvol), FedAtr(bar, atr))} :
             /\ fsm' = r.fsm
             /\ signal' = r.signal
             /\ signals' = Collect(signals, r.signal)
             /\ fresh_fsm' = rf.fsm
             /\ fresh_signals' = Collect(fresh_signals, rf.signal)
             /\ attempt_conf' = IF r.fsm.state = "idle" THEN 0
                                ELSE IF fsm.state = "idle" THEN r.signal.confidence
                                ELSE attempt_conf
             /\ transitions' = IF r.fsm.state # fsm.state /\ r.fsm.state # "idle"
                                THEN transitions \cup {r.fsm.state} ELSE transitions
             /\ valid_rvol' = IF fsm.state = "attempt" THEN valid_rvol \/ ~isnan(rvol)
                               ELSE ~isnan(rvol)
    /\ prev_fsm_state' = fsm.state
    /\ bar_index' = bar_index + 1
    /\ UNCHANGED <<pc, calls, tlVars, report_timeline>>

\* the timeline update after the loop, with breakout_fsm.get_state_str()
AnalyzeFinish ==
    /\ pc = "loop"
    /\ bar_index = BarsPerCall
    /\ \E regime \in Regimes, behavior \in AnalyzeBehaviors, cx \in AnalyzeContexts,
          hx \in HistoryContexts :
         \E r \in {timeline_update(tl_previous_state, tl_events, regime, behavior,
                                    fsm.state, cx)} :
             /\ tl_previous_state' = r.previous_state
             /\ tl_events' = r.events
             /\ tl_new_events' = r.new_events
             /\ report_timeline' = merge_timeline(get_events(r.events, 10),
                                                  historical_events(cx, hx))
    /\ pc' = "ready"
    /\ UNCHANGED <<fsmVars, calls, signals, fresh_fsm, fresh_signals, transitions, valid_rvol>>

(***************************************************************************)
(* The FSM fed bar by bar, as analyze_market does.                         *)
(***************************************************************************)
\* fsm: the BreakoutFSM object; bar_index: the index of the next bar of the
\* replay; signal: what the last update returned; prev_fsm_state: the state the
\* last update started from; attempt_conf: the confidence of the signal that
\* opened the attempt in progress (0 when idle)
InitFSM ==
    /\ NoCooldown
    /\ NoSocket
    /\ NoCache
    /\ NoService
    /\ InitTimeline
    /\ InitMachine(1)
    /\ levels = SessionLevels
    /\ InitAnalysis
    /\ NoStream
    /\ NoZoneCall
    /\ NoPlaybookCall
    /\ fsm \in {NewFSM(cc) : cc \in ConfirmClosesSet}
    /\ bar_index = 0
    /\ signal = NoSignal
    /\ prev_fsm_state = "idle"
    /\ attempt_conf = 0

\* one iteration of the loop over bars: state.breakout_fsm.update(bar, i, ...)
FeedBar ==
    /\ bar_index <= MaxBarIndex
    /\ \E bar \in FsmBars, rvol \in FsmRvols, atr \in FsmAtrs :
         LET r == fsm_update(fsm, bar, bar_index, rvol, atr)
         IN  /\ fsm' = r.fsm
             /\ signal' = r.signal
             /\ attempt_conf' = IF r.fsm.state = "idle" THEN 0
                                ELSE IF fsm.state = "idle" THEN r.signal.confidence
                                ELSE attempt_conf
    /\ prev_fsm_state' = fsm.state
    /\ bar_index' = bar_index + 1
    /\ UNCHANGED <<tlVars, traderVars, anVars, pbVars, sessVars, znVars, svcVars, cacheVars, wsVars, cooldownVars>>

NextFSM == FeedBar

SpecFSM == InitFSM /\ [][NextFSM]_vars

\* the timeline manager on its own
InitTL ==
    /\ NoCooldown
    /\ NoSocket
    /\ NoCache
    /\ NoService
    /\ InitTimeline
    /\ InitMachine(1)
    /\ levels = SessionLevels
    /\ InitAnalysis
    /\ NoStream
    /\ NoZoneCall
    /\ NoPlaybookCall
    /\ fsm = NewFSM(2) /\ bar_index = 0 /\ signal = NoSignal
    /\ prev_fsm_state = "idle" /\ attempt_conf = 0

NextTimeline == TimelineUpdate /\ UNCHANGED <<fsmVars, traderVars, anVars, pbVars, sessVars, znVars, svcVars, cacheVars, wsVars, cooldownVars>>

SpecTimeline == InitTL /\ [][NextTimeline]_vars

\* the sim-trader on its own, for each configured daily limit
InitTrader ==
    /\ NoCooldown
    /\ NoSocket
    /\ NoCache
    /\ NoService
    /\ InitTimeline
    /\ InitAnalysis
    /\ NoStream
    /\ NoZoneCall
    /\ NoPlaybookCall
    /\ \E n \in MaxTradesSet : InitMachine(n)
    /\ levels = SessionLevels
    /\ fsm = NewFSM(2) /\ bar_index = 0 /\ signal = NoSignal
    /\ prev_fsm_state = "idle" /\ attempt_conf = 0

NextTrader ==
    \/ Update /\ UNCHANGED <<fsmVars, tlVars, anVars, pbVars, sessVars, znVars, svcVars, cacheVars, wsVars, cooldownVars>>
    \/ ResetDaily /\ UNCHANGED <<fsmVars, tlVars, anVars, pbVars, sessVars, znVars, svcVars, cacheVars, wsVars, cooldownVars>>

SpecTrader == InitTrader /\ [][NextTrader]_vars

\* a fresh sim-trader fed one snapshot a minute from 09:45 ET with R1 = 624.50
InitScenario ==
    /\ NoCooldown
    /\ NoSocket
    /\ NoCache
    /\ NoService
    /\ InitTimeline
    /\ InitAnalysis
    /\ NoStream
    /\ NoZoneCall
    /\ NoPlaybookCall
    /\ InitMachine(1)
    /\ levels = ScenarioLevels
    /\ fsm = NewFSM(2) /\ bar_index = 0 /\ signal = NoSignal
    /\ prev_fsm_state = "idle" /\ attempt_conf = 0

NextScenario == Replay /\ UNCHANGED <<fsmVars, tlVars, anVars, pbVars, sessVars, znVars, svcVars, cacheVars, wsVars, cooldownVars>>

SpecScenario == InitScenario /\ [][NextScenario]_vars

\* the service driven for two tickers at once, every snapshot carrying the
\* scenario's levels
InitService ==
    /\ NoCooldown
    /\ NoSocket
    /\ NoCache
    /\ InitTimeline
    /\ InitAnalysis
    /\ NoStream
    /\ NoZoneCall
    /\ NoPlaybookCall
    /\ InitMachine(1)
    /\ levels = ScenarioLevels
    /\ fsm = NewFSM(2) /\ bar_index = 0 /\ signal = NoSignal
    /\ prev_fsm_state = "idle" /\ attempt_conf = 0
    /\ NoService

NextService ==
    \/ (\E t \in Tickers : GetTrader(t))
           /\ UNCHANGED <<fsmVars, tlVars, traderVars, anVars, pbVars, sessVars, znVars, cacheVars, wsVars, cooldownVars>>
    \/ (\E t \in Tickers : UpdateTrader(t))
           /\ UNCHANGED <<fsmVars, tlVars, traderVars, anVars, pbVars, sessVars, znVars, cacheVars, wsVars, cooldownVars>>
    \/ (\E t \in Tickers : ResetTrader(t))
           /\ UNCHANGED <<fsmVars, tlVars, traderVars, anVars, pbVars, sessVars, znVars, cacheVars, wsVars, cooldownVars>>

SpecService == InitService /\ [][NextService]_vars

\* one MemoryCache used over a few seconds
InitCache ==
    /\ NoCooldown
    /\ NoSocket
    /\ NoService
    /\ NoCache
    /\ InitTimeline
    /\ InitAnalysis
    /\ NoStream
    /\ NoZoneCall
    /\ NoPlaybookCall
    /\ InitMachine(1)
    /\ levels = SessionLevels
    /\ fsm = NewFSM(2) /\ bar_index = 0 /\ signal = NoSignal
    /\ prev_fsm_state = "idle" /\ attempt_conf = 0

NextCache ==
    \/ CacheGet /\ UNCHANGED <<fsmVars, tlVars, traderVars, anVars, pbVars, sessVars, znVars, svcVars, wsVars, cooldownVars>>
    \/ CacheSet /\ UNCHANGED <<fsmVars, tlVars, traderVars, anVars, pbVars, sessVars, znVars, svcVars, wsVars, cooldownVars>>
    \/ CacheDelete /\ UNCHANGED <<fsmVars, tlVars, traderVars, anVars, pbVars, sessVars, znVars, svcVars, wsVars, cooldownVars>>
    \/ CacheClear /\ UNCHANGED <<fsmVars, tlVars, traderVars, anVars, pbVars, sessVars, znVars, svcVars, wsVars, cooldownVars>>
    \/ CleanupExpired /\ UNCHANGED <<fsmVars, tlVars, traderVars, anVars, pbVars, sessVars, znVars, svcVars, wsVars, cooldownVars>>
    \/ Tick /\ UNCHANGED <<fsmVars, tlVars, traderVars, anVars, pbVars, sessVars, znVars, svcVars, wsVars, cooldownVars>>

SpecCache == InitCache /\ [][NextCache]_vars

\* one TwelveDataWebSocket over a few connections
InitSocket ==
    /\ NoCooldown
    /\ NoService
    /\ NoSocket
    /\ NoCache
    /\ InitTimeline
    /\ InitAnalysis
    /\ NoStream
    /\ NoZoneCall
    /\ NoPlaybookCall
    /\ InitMachine(1)
    /\ levels = SessionLevels
    /\ fsm = NewFSM(2) /\ bar_index = 0 /\ signal = NoSignal
    /\ prev_fsm_state = "idle" /\ attempt_conf = 0

NextSocket ==
    \/ Subscribe
         /\ UNCHANGED <<fsmVars, tlVars, traderVars, anVars, pbVars, sessVars, znVars, svcVars, cacheVars, cooldownVars>>
    \/ Unsubscribe
         /\ UNCHANGED <<fsmVars, tlVars, traderVars, anVars, pbVars, sessVars, znVars, svcVars, cacheVars, cooldownVars>>
    \/ SendDone
         /\ UNCHANGED <<fsmVars, tlVars, traderVars, anVars, pbVars, sessVars, znVars, svcVars, cacheVars, cooldownVars>>
    \/ SendFailed
         /\ UNCHANGED <<fsmVars, tlVars, traderVars, anVars, pbVars, sessVars, znVars, svcVars, cacheVars, cooldownVars>>
    \/ ConnectionLost
         /\ UNCHANGED <<fsmVars, tlVars, traderVars, anVars, pbVars, sessVars, znVars, svcVars, cacheVars, cooldownVars>>
    \/ Connect
         /\ UNCHANGED <<fsmVars, tlVars, traderVars, anVars, pbVars, sessVars, znVars, svcVars, cacheVars, cooldownVars>>
    \/ PriceMessage
         /\ UNCHANGED <<fsmVars, tlVars, traderVars, anVars, pbVars, sessVars, znVars, svcVars, cacheVars, cooldownVars>>

SpecSocket == InitSocket /\ [][NextSocket]_vars

\* one CooldownManager over a few days of the scaled clock
InitCooldown ==
    /\ NoCooldown
    /\ NoService
    /\ NoSocket
    /\ NoCache
    /\ InitTimeline
    /\ InitAnalysis
    /\ NoStream
    /\ NoZoneCall
    /\ NoPlaybookCall
    /\ InitMachine(1)
    /\ levels = SessionLevels
    /\ fsm = NewFSM(2) /\ bar_index = 0 /\ signal = NoSignal
    /\ prev_fsm_state = "idle" /\ attempt_conf = 0

NextCooldown ==
    \/ CanTrigger
         /\ UNCHANGED <<fsmVars, tlVars, traderVars, anVars, pbVars, sessVars, znVars, svcVars, cacheVars, wsVars>>
    \/ RecordTrigger
         /\ UNCHANGED <<fsmVars, tlVars, traderVars, anVars, pbVars, sessVars, znVars, svcVars, cacheVars, wsVars>>
    \/ GetPendingEvents
         /\ UNCHANGED <<fsmVars, tlVars, traderVars, anVars, pbVars, sessVars, znVars, svcVars, cacheVars, wsVars>>
    \/ ClockTick
         /\ UNCHANGED <<fsmVars, tlVars, traderVars, anVars, pbVars, sessVars, znVars, svcVars, cacheVars, wsVars>>

SpecCooldown == InitCooldown /\ [][NextCooldown]_vars

\* analyze_market called again and again with one AnalysisState
InitAnalyze ==
    /\ NoCooldown
    /\ NoSocket
    /\ NoCache
    /\ NoService
    /\ InitTimeline
    /\ InitMachine(1)
    /\ levels = SessionLevels
    /\ InitAnalysis
    /\ NoStream
    /\ NoZoneCall
    /\ NoPlaybookCall
    /\ fsm \in {NewFSM(cc) : cc \in ConfirmClosesSet}
    /\ bar_index = 0
    /\ signal = NoSignal
    /\ prev_fsm_state = "idle"
    /\ attempt_conf = 0

NextAnalyze ==
    \/ AnalyzeBegin /\ UNCHANGED <<traderVars, pbVars, sessVars, znVars, svcVars, cacheVars, wsVars, cooldownVars>>
    \/ AnalyzeFeedBar /\ UNCHANGED <<traderVars, pbVars, sessVars, znVars, svcVars, cacheVars, wsVars, cooldownVars>>
    \/ AnalyzeFinish /\ UNCHANGED <<traderVars, pbVars, sessVars, znVars, svcVars, cacheVars, wsVars, cooldownVars>>

SpecAnalyze == InitAnalyze /\ [][NextAnalyze]_vars

\* generate_playbook called once on each combination of arguments
InitPlaybook ==
    /\ NoCooldown
    /\ NoSocket
    /\ NoCache
    /\ NoService
    /\ InitTimeline
    /\ InitMachine(1)
    /\ levels = SessionLevels
    /\ InitAnalysis
    /\ NoStream
    /\ NoZoneCall
    /\ fsm = NewFSM(2) /\ bar_index = 0 /\ signal = NoSignal
    /\ prev_fsm_state = "idle" /\ attempt_conf = 0
    /\ pb_in \in PlaybookInputs
    /\ playbook = [done |-> FALSE, plans |-> <<>>]
    /\ eh_bars = NoBars

NextPlaybook == GeneratePlaybook /\ UNCHANGED <<fsmVars, tlVars, traderVars, anVars, sessVars, znVars, svcVars, cacheVars, wsVars, cooldownVars>>

SpecPlaybook == InitPlaybook /\ [][NextPlaybook]_vars

\* the EH context built from two days of bars, then the playbook generated
\* with it
InitEH ==
    /\ NoCooldown
    /\ NoSocket
    /\ NoCache
    /\ NoService
    /\ InitTimeline
    /\ InitMachine(1)
    /\ levels = SessionLevels
    /\ InitAnalysis
    /\ NoStream
    /\ NoZoneCall
    /\ fsm = NewFSM(2) /\ bar_index = 0 /\ signal = NoSignal
    /\ prev_fsm_state = "idle" /\ attempt_conf = 0
    /\ pb_in \in EHPlaybookInputs
    /\ playbook = [done |-> FALSE, plans |-> <<>>]
    /\ eh_bars \in EHBars

NextEH ==
    \/ BuildEHContext /\ UNCHANGED <<fsmVars, tlVars, traderVars, anVars, sessVars, znVars, svcVars, cacheVars, wsVars, cooldownVars>>
    \/ GeneratePlaybook /\ UNCHANGED <<fsmVars, tlVars, traderVars, anVars, sessVars, znVars, svcVars, cacheVars, wsVars, cooldownVars>>

SpecEH == InitEH /\ [][NextEH]_vars

\* the session classifier on a growing list of bars
InitSessions ==
    /\ NoCooldown
    /\ NoSocket
    /\ NoCache
    /\ NoService
    /\ InitTimeline
    /\ InitMachine(1)
    /\ levels = SessionLevels
    /\ InitAnalysis
    /\ NoStream
    /\ NoZoneCall
    /\ NoPlaybookCall
    /\ fsm = NewFSM(2) /\ bar_index = 0 /\ signal = NoSignal
    /\ prev_fsm_state = "idle" /\ attempt_conf = 0

NextSessions ==
    \/ ReceiveBar /\ UNCHANGED <<fsmVars, tlVars, traderVars, anVars, pbVars, znVars, svcVars, cacheVars, wsVars, cooldownVars>>
    \/ SplitBars /\ UNCHANGED <<fsmVars, tlVars, traderVars, anVars, pbVars, znVars, svcVars, cacheVars, wsVars, cooldownVars>>

SpecSessions == InitSessions /\ [][NextSessions]_vars

\* analyze_market called once on each combination of arguments
InitZones ==
    /\ NoCooldown
    /\ NoSocket
    /\ NoCache
    /\ NoService
    /\ InitTimeline
    /\ InitMachine(1)
    /\ levels = SessionLevels
    /\ InitAnalysis
    /\ NoStream
    /\ NoPlaybookCall
    /\ fsm = NewFSM(2) /\ bar_index = 0 /\ signal = NoSignal
    /\ prev_fsm_state = "idle" /\ attempt_conf = 0
    /\ zn_in \in ZoneInputs
    /\ zn_out = NoReport

NextZones == AnalyzeZones /\ UNCHANGED <<fsmVars, tlVars, traderVars, anVars, pbVars, sessVars, svcVars, cacheVars, wsVars, cooldownVars>>

SpecZones == InitZones /\ [][NextZones]_vars

(***************************************************************************)
(* Properties of the BreakoutFSM.                                          *)
(***************************************************************************)
\* the quantities of the confirmation rule, restated from the FSM's fields:
\* consecutive_closes, max RVOL and max result as they stand once the bar
\* has been taken into account
ClosesBeyond(f, bar) ==
    (f.direction = "up" /\ bar.c > f.zone.high) \/ (f.direction = "down" /\ bar.c < f.zone.low)

ClosesAfter(f, bar) == f.consecutive_closes + (IF ClosesBeyond(f, bar) THEN 1 ELSE 0)

MaxRvolAfter(f, rvol) ==
    IF rvol # NaN /\ rvol > f.max_volume_seen THEN rvol ELSE f.max_volume_seen

MaxResultAfter(f, bar, atr) ==
    LET res == IF atr > 0 THEN ((bar.h - bar.l) * 100) \div atr ELSE 0
    IN  IF res > f.max_result_seen THEN res ELSE f.max_result_seen

StructureFactor(f, bar) == ClosesAfter(f, bar) >= f.confirm_closes

FactorCount(f, bar, rvol, atr) ==
      (IF StructureFactor(f, bar) THEN 1 ELSE 0)
    + (IF MaxRvolAfter(f, rvol) >= 18 THEN 1 ELSE 0)
    + (IF MaxResultAfter(f, bar, atr) >= 60 THEN 1 ELSE 0)

RuleApplies(f, bar, rvol, atr) ==
    \/ FactorCount(f, bar, rvol, atr) = 3
    \/ FactorCount(f, bar, rvol, atr) = 2 /\ StructureFactor(f, bar)

Confirms(r) ==
    /\ r.signal.type = "breakout_confirmed"
    /\ r.signal.confidence = 85
    /\ r.fsm.state = "confirmed"

EmitsFakeout(r) ==
    /\ r.signal.type = "fakeout"
    /\ r.signal.confidence = 75
    /\ r.fsm.state = "fakeout"

\* C3: an update that starts in CONFIRMED or FAKEOUT ends in IDLE with the
\* stored zone and direction cleared, so a terminal state lasts one update.
C3_TerminalLastsOneUpdate ==
    prev_fsm_state \in {"confirmed", "fakeout"} =>
        fsm.state = "idle" /\ fsm.zone = NoZone /\ fsm.direction = "none"

C3_Witness ==
    prev_fsm_state = "confirmed" /\ fsm.state = "idle" /\ fsm.zone = NoZone

\* C4 as stated: in ATTEMPT, every bar on which the factor count (after the
\* updates of the bar) is 3, or 2 with the structure factor, is answered by
\* breakout_confirmed with confidence 0.85 and the state CONFIRMED.
C4_ConfirmWheneverRuleHolds ==
    fsm.state = "attempt" =>
        \A bar \in FsmBars, rvol \in FsmRvols, atr \in FsmAtrs :
            RuleApplies(fsm, bar, rvol, atr)
                => Confirms(fsm_update(fsm, bar, bar_index, rvol, atr))

\* C4 amended: the same, for the bars whose close is still beyond the zone on
\* the breakout side.
C4_ConfirmWhenStillOutside ==
    fsm.state = "attempt" =>
        \A bar \in FsmBars, rvol \in FsmRvols, atr \in FsmAtrs :
            (ClosesBeyond(fsm, bar) /\ RuleApplies(fsm, bar, rvol, atr))
                => Confirms(fsm_update(fsm, bar, bar_index, rvol, atr))

C4_Witness ==
    /\ prev_fsm_state = "attempt"
    /\ fsm.state = "confirmed"
    /\ signal.type = "breakout_confirmed" /\ signal.confidence = 85
    /\ fsm.consecutive_closes >= fsm.confirm_closes

\* C5: in ATTEMPT, on a bar the confirmation rule does not settle, a fakeout
\* (confidence 0.75, state FAKEOUT) is emitted exactly when the close is back
\* inside the zone and at most fakeout_bars bars have passed since the attempt.
C5_FakeoutIffReturnInWindow ==
    fsm.state = "attempt" =>
        \A bar \in FsmBars, rvol \in FsmRvols, atr \in FsmAtrs :
            LET r == fsm_update(fsm, bar, bar_index, rvol, atr)
                back_inside == ~ClosesBeyond(fsm, bar)
                inWindow == bar_index - fsm.attempt_bar_index <= fsm.fakeout_bars
            IN  ~(ClosesBeyond(fsm, bar) /\ RuleApplies(fsm, bar, rvol, atr)) =>
                    /\ (back_inside /\ inWindow) => EmitsFakeout(r)
                    /\ ~(back_inside /\ inWindow) =>
                          r.signal.type # "fakeout" /\ r.fsm.state # "fakeout"

C5_Witness ==
    /\ prev_fsm_state = "attempt"
    /\ fsm.state = "fakeout"
    /\ signal.type = "fakeout" /\ signal.confidence = 75
    /\ signal.bar_index - fsm.attempt_bar_index = fsm.fakeout_bars

\* C7: a signal emitted while an attempt is in progress has a confidence not
\* below that of the signal that opened the attempt.
C7_ConfidenceNeverDrops ==
    (prev_fsm_state = "attempt" /\ signal # NoSignal) =>
        signal.confidence >= attempt_conf

\* C8: an update returns a signal only when it moves the FSM from IDLE to
\* ATTEMPT or from ATTEMPT to CONFIRMED or FAKEOUT.
C8_SignalOnlyOnTransition ==
    signal # NoSignal =>
        \/ prev_fsm_state = "idle" /\ fsm.state = "attempt"
        \/ prev_fsm_state = "attempt" /\ fsm.state \in {"confirmed", "fakeout"}

C8_Witness ==
    /\ prev_fsm_state = "idle" /\ fsm.state = "attempt"
    /\ signal.type = "breakout_attempt"

\* the update leaves the attempt neither confirmed nor turned into a fakeout
Unresolved(r) == r.fsm.state \notin {"confirmed", "fakeout"}

\* C15 as stated: an attempt that is neither confirmed nor turned into a
\* fakeout stays in ATTEMPT on every update with bars_since_attempt <= 6 and
\* is reset to IDLE without a signal on the first one with
\* bars_since_attempt > 6.
C15_AttemptLastsUntilTimeout ==
    fsm.state = "attempt" =>
        \A bar \in FsmBars, rvol \in FsmRvols, atr \in FsmAtrs :
            LET r == fsm_update(fsm, bar, bar_index, rvol, atr)
                bars_since_attempt == bar_index - fsm.attempt_bar_index
            IN  Unresolved(r) =>
                    IF bars_since_attempt <= fsm.fakeout_bars * 2
                    THEN r.fsm.state = "attempt"
                    ELSE r.fsm.state = "idle" /\ r.signal = NoSignal

\* C15 amended: an attempt that is neither confirmed nor turned into a
\* fakeout stays in ATTEMPT on every update with bars_since_attempt <= 6 whose
\* close is still beyond the zone; it is reset to IDLE without a signal by
\* the first update whose close is back inside the zone (the fakeout window
\* being over) and, at the latest, by the first one with
\* bars_since_attempt > 6.
C15_AttemptLastsWhileOutside ==
    fsm.state = "attempt" =>
        \A bar \in FsmBars, rvol \in FsmRvols, atr \in FsmAtrs :
            LET r == fsm_update(fsm, bar, bar_index, rvol, atr)
                bars_since_attempt == bar_index - fsm.attempt_bar_index
            IN  Unresolved(r) =>
                    IF bars_since_attempt <= fsm.fakeout_bars * 2 /\ ClosesBeyond(fsm, bar)
                    THEN r.fsm.state = "attempt" /\ r.signal = NoSignal
                    ELSE /\ r.fsm.state = "idle" /\ r.signal = NoSignal
                         /\ bars_since_attempt > fsm.fakeout_bars

\* an attempt that has lasted six updates and is fed a seventh
C15_Witness ==
    /\ fsm.state = "attempt"
    /\ bar_index - fsm.attempt_bar_index = fsm.fakeout_bars * 2 + 1
    /\ bar_index <= MaxBarIndex

\* the label the running max RVOL of the attempt calls for
QualityOfRunningMax(f) ==
    IF f.max_volume_seen >= f.volume_threshold THEN "confirmed"
    ELSE IF f.max_volume_seen > 0 THEN "pending"
    ELSE "unavailable"

VolumeQualityOfEndSignals ==
    (signal # NoSignal /\ fsm.state \in {"confirmed", "fakeout"})
        => signal.volume_quality = QualityOfRunningMax(fsm)

(***************************************************************************)
(* Properties of the TimelineManager.                                      *)
(***************************************************************************)
SoftTypes ==
    {"zone_approached", "zone_tested", "zone_rejected", "zone_accepted",
     "spring", "upthrust", "absorption_clue", "volume_spike", "volume_dryup",
     "new_swing_high", "new_swing_low"}

SoftIn(evs) == {i \in DOMAIN evs : evs[i].event_type \in SoftTypes}

HardIn(evs) == {i \in DOMAIN evs : evs[i].event_type \notin SoftTypes}

\* C6: the events one update returns hold at most two soft events, and no
\* soft event at all next to a hard event.
C6_SoftEventsLimited ==
    /\ Cardinality(SoftIn(tl_new_events)) <= 2
    /\ HardIn(tl_new_events) # {} => SoftIn(tl_new_events) = {}

\* an update on a bar with five soft candidates returned the first two
C6_Witness ==
    /\ Len(tl_new_events) = 2
    /\ tl_new_events[1].event_type = "zone_rejected"
    /\ tl_new_events[2].event_type = "upthrust"

(***************************************************************************)
(* Properties of the sim-trader.                                           *)
(***************************************************************************)
\* the edges of the state graph
AllowedEdges ==
    {<<"WAIT", "WATCH">>, <<"WATCH", "ARMED">>, <<"ARMED", "ENTER">>, <<"ENTER", "HOLD">>,
     <<"HOLD", "TRIM">>, <<"TRIM", "HOLD">>, <<"HOLD", "EXIT">>, <<"TRIM", "EXIT">>,
     <<"EXIT", "WAIT">>, <<"WATCH", "WAIT">>, <<"ARMED", "WAIT">>}

\* C1: the status of a returned row differs from the status of the row
\* returned before it only along an edge of the state graph.
C1_OnlyGraphEdges ==
    [][(/\ returned.status # "none" /\ returned'.status # "none"
        /\ returned'.status # returned.status)
          => <<returned.status, returned'.status>> \in AllowedEdges]_vars

\* C2: an update raises trades_today by one exactly when it takes the stored
\* plan from ENTER to HOLD, and leaves it unchanged otherwise.
C2_CountsExactlyEnterToHold ==
    [][op' = "update" =>
          /\ trades_today' \in {trades_today, trades_today + 1}
          /\ trades_today' = trades_today + 1
                <=> (current_plan.status = "ENTER" /\ current_plan'.status = "HOLD")]_vars

C2_Witness ==
    /\ op = "update" /\ trades_today = 1
    /\ current_plan.status = "HOLD" /\ current_plan.bars_since_entry = 1

\* the snapshots that differ in what position management reads
HeldSnapshots == PositionSnapshots \cup OutOfHoursSnapshots

\* the day's limit is reached and no position is held
LimitAndFlat(m, cfg) ==
    m.trades_today >= cfg.max_trades_per_day /\ m.current_plan.status \notin {"HOLD", "TRIM"}

\* C9: once trades_today has reached max_trades_per_day with no position
\* held, an update returns WAIT, inside the trade window (also on a snapshot
\* that shows a setup) and outside, and leaves the machine in that situation,
\* so every later update does until reset_daily.
C9_WaitAfterDailyLimit ==
    LimitAndFlat(Machine, config) =>
        \A snap \in TimestampSnapshots \cup OutOfHoursSnapshots :
            LET r == trader_update(Machine, config, snap)
            IN  r.row.status = "WAIT" /\ LimitAndFlat(r.m, config)

C9_Witness ==
    /\ op = "update" /\ trades_today = config.max_trades_per_day
    /\ current_plan.status = "EXIT"
    /\ returned = [status |-> "WAIT", ts |-> InHoursTs]

\* the EXIT conditions in the words of the claim, for a held plan
PriceCrossedInvalidation(plan, snap) ==
    \/ /\ plan.direction = "CALL"
       /\ snap.close * Scale < plan.entry_underlying * Scale - snap.close * buffer_pct
    \/ /\ plan.direction = "PUT"
       /\ snap.close * Scale > plan.entry_underlying * Scale + snap.close * buffer_pct

TrendReversed(plan, snap) ==
    \/ plan.direction = "CALL" /\ snap.trend_1m = "down"
    \/ plan.direction = "PUT" /\ snap.trend_1m = "up"

BehaviorAdversarial(plan, snap) ==
    \/ plan.direction = "CALL" /\ snap.behavior \in {"distribution", "wash"}
    \/ plan.direction = "PUT" /\ snap.behavior \in {"accumulation", "rally"}

ExitCalledFor(plan, snap) ==
    PriceCrossedInvalidation(plan, snap) \/ TrendReversed(plan, snap)
        \/ BehaviorAdversarial(plan, snap)

\* C10: while a position is held, every update whose snapshot meets an EXIT
\* condition returns EXIT.
C10_ExitWheneverCalledFor ==
    current_plan.status \in {"HOLD", "TRIM"} =>
        \A snap \in HeldSnapshots :
            ExitCalledFor(current_plan, snap)
                => trader_update(Machine, config, snap).row.status = "EXIT"

\* the same for the updates inside the trade window, which is where the
\* position is looked at
ExitInsideTradeWindow ==
    current_plan.status \in {"HOLD", "TRIM"} =>
        \A snap \in HeldSnapshots :
            (is_trading_time(snap.ts) /\ ExitCalledFor(current_plan, snap))
                => trader_update(Machine, config, snap).row.status = "EXIT"

\* C11: every update that moves the plan to EXIT appends exactly one review,
\* which carries the entry timestamp and price of the plan being closed and
\* the timestamp and close of the snapshot as exit.
C11_ReviewOnEveryExit ==
    [][(op' = "update" /\ current_plan.status # "EXIT" /\ current_plan'.status = "EXIT")
          => /\ Len(reviews') = Len(reviews) + 1
             /\ SubSeq(reviews', 1, Len(reviews)) = reviews
             /\ reviews'[Len(reviews')].entry_ts = current_plan.entry_ts
             /\ reviews'[Len(reviews')].entry_price = current_plan.entry_price
             /\ reviews'[Len(reviews')].exit_ts = current_plan'.ts]_vars

\* the close is beyond the setup's key level by more than the buffer, on the
\* setup's side
BeyondBuffer(setup, close) ==
    IF setup = "R1_BREAKOUT" THEN close * Scale > Levels.R1 * Scale + get_buffer(close)
    ELSE IF setup = "S1_BREAKDOWN" THEN close * Scale < Levels.S1 * Scale - get_buffer(close)
    ELSE IF setup = "YC_RECLAIM" THEN close * Scale > Levels.YC * Scale + get_buffer(close)
    ELSE IF setup = "R1_REJECT" THEN close * Scale < Levels.R1 * Scale - get_buffer(close)
    ELSE FALSE

\* C12: a setup gets status ENTER only when the close of this update and the
\* close of the update before it (confirm_bars = 2 consecutive ones) are both
\* beyond the key level and buffer on the setup's side.
C12_EnterNeedsConsecutiveCloses ==
    [][(op' = "update" /\ current_plan.status # "ENTER" /\ current_plan'.status = "ENTER")
          => /\ BeyondBuffer(current_plan'.setup_type, prev_close')
             /\ prev_close # None
             /\ BeyondBuffer(current_plan'.setup_type, prev_close)]_vars

\* the setups detected on a bar, and the risk order LOW before MED before HIGH
DetectedSetups(snap, state) ==
    {r \in {check_r1_breakout(snap, state.r1_confirm),
            check_s1_breakdown(snap, state.s1_confirm),
            check_yc_reclaim(snap, state.yc_confirm, state.was_below_yc),
            check_r1_reject(snap, state.r1_reject_confirm, state.touched_r1)} : r.detected}

RiskRank(risk) == IF risk = "LOW" THEN 0 ELSE IF risk = "MED" THEN 1 ELSE 2

\* C13: detect_best_setup returns one of the detected setups such that no
\* detected setup has a higher status priority and, among those of its status,
\* none has a lower risk (LOW before MED before HIGH).
C13_BestStatusThenLowestRisk ==
    \A snap \in SetupSnapshots :
        LET best == detect_best_setup(snap, setup_state)
            found == DetectedSetups(snap, setup_state)
        IN  found # {} =>
                /\ best \in found
                /\ \A r \in found :
                      \/ status_priority(best.status) < status_priority(r.status)
                      \/ /\ status_priority(best.status) = status_priority(r.status)
                         /\ RiskRank(best.risk) <= RiskRank(r.risk)

\* the status part alone: no detected setup has a higher status priority
\* than the one returned
BestStatusWins ==
    \A snap \in SetupSnapshots :
        LET best == detect_best_setup(snap, setup_state)
            found == DetectedSetups(snap, setup_state)
        IN  found # {} =>
                /\ best \in found
                /\ \A r \in found : status_priority(best.status) <= status_priority(r.status)

\* C14: while a position is held, an update inside the trade window on which
\* no EXIT condition applies and with which the target level has been tested
\* max_target_attempts times without breaking returns TRIM.
C14_TrimAfterTargetTests ==
    current_plan.status \in {"HOLD", "TRIM"} =>
        \A snap \in PositionSnapshots :
            (/\ ~ExitCalledFor(current_plan, snap)
             /\ target_tests + (IF TargetTested(current_plan, snap) THEN 1 ELSE 0)
                    >= max_target_attempts)
                => trader_update(Machine, config, snap).row.status = "TRIM"

\* C21: the R1-reject detector reports a setup only when the touched_r1 flag
\* was already set by an earlier update; with the flag unset it reports none,
\* whatever the bar.
C21_RejectNeedsPriorTouch ==
    \A snap \in SetupSnapshots :
        check_r1_reject(snap, setup_state.r1_reject_confirm, setup_state.touched_r1).detected
            => setup_state.touched_r1

\* with the flag unset, a report needs the bar's own high within the buffer
\* of R1
RejectNeedsTouch ==
    \A snap \in SetupSnapshots :
        check_r1_reject(snap, setup_state.r1_reject_confirm, setup_state.touched_r1).detected
            => \/ setup_state.touched_r1
               \/ snap.high * Scale >= Levels.R1 * Scale - get_buffer(snap.close)

\* the replay so far is the scenario: its closes in order, every bar with
\* trend_1m up, and one more bar after them
ScenarioFed ==
    /\ Len(fed) = Len(ScenarioCloses) + 1
    /\ \A i \in DOMAIN ScenarioCloses : fed[i].close = ScenarioCloses[i]
    /\ \A i \in DOMAIN fed : fed[i].trend_1m = "up"

\* C22: a fresh trader fed R1 = 624.50, trend up, quality pass, RVOL high
\* and the closes 624.20, 624.35, 624.55, 624.70 from 09:45 ET returns ARMED,
\* ARMED, ARMED, ENTER, then HOLD on the following bar, and trades_today is 1.
C22_ScenarioArmedToEnter ==
    ScenarioFed =>
        /\ [i \in DOMAIN fed |-> fed[i].status] = <<"ARMED", "ARMED", "ARMED", "ENTER", "HOLD">>
        /\ trades_today = 1

\* what the replay of the scenario returns: ARMED on every bar whose close is
\* within the buffer of R1, no trade
ScenarioStaysArmed ==
    (ScenarioFed /\ fed[Len(fed)].close <= 62470) =>
        /\ \A i \in DOMAIN fed : fed[i].status = "ARMED"
        /\ trades_today = 0

(***************************************************************************)
(* Properties of analyze_market.                                           *)
(***************************************************************************)
\* the hard event that reports the FSM moving into a state
HardEventOf(state) ==
    IF state = "attempt" THEN "breakout_attempt"
    ELSE IF state = "confirmed" THEN "breakout_confirmed"
    ELSE "fakeout_detected"

\* C16: once a call has processed its bars, the timeline events of the call
\* hold the hard event of every state (ATTEMPT, CONFIRMED, FAKEOUT) the FSM
\* moved into while the bars were processed.
C16_TransitionsReachTimeline ==
    (pc = "ready" /\ calls > 0) =>
        \A st \in transitions :
            \E i \in DOMAIN tl_new_events : tl_new_events[i].event_type = HardEventOf(st)

\* C18: a signal of an attempt none of whose bars had a valid (non-NaN) RVOL
\* is labelled unavailable.
C18_NanRvolGivesUnavailable ==
    (calls > 0 /\ signal # NoSignal /\ ~valid_rvol) => signal.volume_quality = "unavailable"

\* C19: a call made with the AnalysisState of earlier calls collects the
\* signals the same call collects without a state.
C19_StateLeavesSignalsAlone ==
    (pc = "ready" /\ calls > 0) => signals = fresh_signals

(***************************************************************************)
(* Properties of generate_playbook.                                        *)
(***************************************************************************)
\* target and invalidation differ and lie on opposite sides of level
WellFormed(plan) ==
    /\ plan.target # plan.invalidation
    /\ \/ plan.target > plan.level /\ plan.invalidation < plan.level
       \/ plan.target < plan.level /\ plan.invalidation > plan.level

\* C20: every plan generate_playbook returns, Plan EH included, has target
\* and invalidation different and on opposite sides of level.
C20_PlansWellFormed ==
    playbook.done => \A i \in DOMAIN playbook.plans : WellFormed(playbook.plans[i])

\* the same for the regime plans (Plan A, Plan B) once the ATR is a cent or more
RegimePlansWellFormed ==
    (playbook.done /\ pb_in.atr >= 10) =>
        \A i \in DOMAIN playbook.plans :
            playbook.plans[i].name # "Plan EH" => WellFormed(playbook.plans[i])

\* the bars of the EH scenario: yesterday's regular close 150, at least 10
\* premarket bars today, the last one closing at 154 (ATR is 1 in every
\* playbook call of this specification)
GapScenario ==
    eh_bars.yc = 150000 /\ eh_bars.premarket >= 10 /\ eh_bars.premarket_close = 154000

\* C23: with yesterday's close at 150, a premarket of at least 10 bars closing
\* at 154 and ATR about 1, the EH context built from the bars has
\* premarket_regime gap_fill_bias, and the playbook generated with it holds a
\* "Plan EH" with target 150 and a direction opposing the gap (short).
C23_GapScenarioGivesPlanEH ==
    (GapScenario /\ pb_in.eh_context # NoEHContext) =>
        /\ pb_in.eh_context.premarket_regime = "gap_fill_bias"
        /\ playbook.done =>
              \E i \in DOMAIN playbook.plans :
                  /\ playbook.plans[i].name = "Plan EH"
                  /\ playbook.plans[i].target = 150000
                  /\ playbook.plans[i].condition = "condition.gap_fill_short"

\* what the context built from bars is: range_day_setup with the gap of the
\* premarket close in complete mode, unavailable with gap 0 otherwise, and
\* never a "Plan EH" in the playbook
BuiltContextHasNoGapFill ==
    pb_in.eh_context # NoEHContext =>
        /\ pb_in.eh_context.premarket_regime =
              (IF eh_bars.premarket >= 10 THEN "range_day_setup" ELSE "unavailable")
        /\ pb_in.eh_context.yc = eh_bars.yc
        /\ pb_in.eh_context.gap =
              (IF eh_bars.premarket >= 10 THEN eh_bars.premarket_close - eh_bars.yc ELSE 0)
        /\ \A i \in DOMAIN playbook.plans : playbook.plans[i].name # "Plan EH"

\* the bar is in one of the four session lists of the split
InSomeList(b) ==
    \E l \in {session_bars.yesterday_regular, session_bars.yesterday_afterhours,
               session_bars.today_premarket, session_bars.today_regular} :
        \E i \in DOMAIN l : l[i] = b

\* C24: the classifier places a bar in premarket iff its time is in
\* [04:00, 09:30), in regular iff in [09:30, 16:00), in afterhours iff in
\* [16:00, 20:00); a bar at any other time ends up in no session list.
C24_SessionsByTime ==
    session_bars.done =>
        \A i \in DOMAIN eh_stream :
            LET b == eh_stream[i]
                t == b.minute
            IN  /\ get_session_type(t) = "premarket" <=> (240 <= t /\ t < 570)
                /\ get_session_type(t) = "regular" <=> (570 <= t /\ t < 960)
                /\ get_session_type(t) = "afterhours" <=> (960 <= t /\ t < 1200)
                /\ (t < 240 \/ t >= 1200) => ~InSomeList(b)

\* the part that holds: premarket and regular are binned by their windows,
\* and every bar of the split lists is in the list of its date and session
PremarketAndRegularByTime ==
    session_bars.done =>
        /\ \A i \in DOMAIN eh_stream :
              LET t == eh_stream[i].minute
              IN  /\ get_session_type(t) = "premarket" <=> (240 <= t /\ t < 570)
                  /\ get_session_type(t) = "regular" <=> (570 <= t /\ t < 960)
        /\ \A i \in DOMAIN session_bars.today_premarket :
              get_session_type(session_bars.today_premarket[i].minute) = "premarket"
        /\ \A i \in DOMAIN session_bars.today_regular :
              get_session_type(session_bars.today_regular[i].minute) = "regular"
        /\ \A i \in DOMAIN session_bars.yesterday_regular :
              get_session_type(session_bars.yesterday_regular[i].minute) = "regular"

\* C25: analyze_market rejects every timeframe other than 1m, 5m and 1d
\* with an InvalidTimeframe error instead of returning a report (on a call
\* with enough bars, which nothing else rejects).
C25_InvalidTimeframeRejected ==
    (zn_out.done /\ zn_in.enough_bars /\ zn_in.timeframe \notin {"1m", "5m", "1d"})
        => zn_out.error = "InvalidTimeframe"

\* what the call does with such a timeframe: with enough bars a report is
\* returned that carries the timeframe as given, its zones padded as for 1d
OtherTimeframeTreatedAsDaily ==
    (zn_out.done /\ zn_in.enough_bars /\ zn_in.timeframe \notin {"1m", "5m", "1d"})
        => /\ zn_out.error = "none"
           /\ zn_out.tf = zn_in.timeframe
           /\ zn_out.zones = cluster_zones(zn_in.swing_highs, zn_in.swing_lows,
                                           zn_in.atr, "1d", zn_in.max_zones)

\* the zones of one side are in non-increasing score order, each with
\* low < high, at most max_zones of them
SideInOrder(zones) ==
    /\ \A i, j \in DOMAIN zones : i < j => zones[i].score >= zones[j].score
    /\ \A i \in DOMAIN zones : zones[i].low < zones[i].high
    /\ Len(zones) <= zn_in.max_zones

\* C30: for each side cluster_zones returns the zones in non-increasing
\* score order, every zone with low < high, at most max_zones zones.
C30_ZonesOrderedAndBounded ==
    (zn_out.done /\ zn_out.error = "none") =>
        /\ SideInOrder(zn_out.zones.support)
        /\ SideInOrder(zn_out.zones.resistance)

\* a call that returned more than one zone on a side, the best one not the
\* lowest in price, and cut a side to max_zones
C30_Witness ==
    /\ zn_out.done
    /\ Len(zn_out.zones.support) = 2
    /\ zn_out.zones.support[1].low > zn_out.zones.support[2].low
    /\ zn_out.zones.support[1].score > zn_out.zones.support[2].score
    /\ Len(zn_out.zones.resistance) = zn_in.max_zones
    /\ Cardinality(Clusters(zn_in.swing_highs, zn_in.atr)) > zn_in.max_zones

\* the severity the mapping assigns to an event type
MappedSeverity(event_type) ==
    IF event_type \in {"zone_accepted", "breakout_confirmed", "regime_change",
                       "spring", "upthrust"}
    THEN "critical"
    ELSE IF event_type \in {"behavior_shift", "fakeout_detected", "volume_spike",
                            "absorption_clue"}
    THEN "warning"
    ELSE "info"

\* C26: every emitted timeline event carries the severity the mapping
\* assigns to its type: critical for zone_accepted, breakout_confirmed,
\* regime_change, spring and upthrust; warning for behavior_shift, fakeout,
\* volume_spike and absorption; info for every other type.
C26_SeverityByType ==
    \A i \in DOMAIN tl_new_events :
        tl_new_events[i].severity = MappedSeverity(tl_new_events[i].event_type)

\* the mapping holds for every emitted event but zone_accepted, which is
\* emitted as a warning
SeverityByTypeButZoneAccepted ==
    \A i \in DOMAIN tl_new_events :
        IF tl_new_events[i].event_type = "zone_accepted"
        THEN tl_new_events[i].severity = "warning"
        ELSE tl_new_events[i].severity = MappedSeverity(tl_new_events[i].event_type)

\* C28: after any sequence of updates the stored event log holds at most
\* max_events events, and these are the most recently emitted events in
\* emission order: each update leaves the log followed by the events it
\* emitted, cut to the last max_events of them.
C28_LogKeepsLatestEvents ==
    /\ [](Len(tl_events) <= max_events)
    /\ [][LET all == tl_events \o tl_new_events'
              kept == Min(Len(all), max_events)
          IN  /\ Len(tl_events') = kept
              /\ \A i \in 1..kept : tl_events'[i] = all[Len(all) - kept + i]]_vars

\* a full log whose oldest event, "initialized", has been dropped by an
\* update that emitted one event and kept an older one
C28_Witness ==
    /\ Len(tl_events) = max_events
    /\ Len(tl_new_events) = 1
    /\ \A i \in DOMAIN tl_events : tl_events[i].event_type # "initialized"

\* C29: plan_history never holds more than the limit of rows (100 in the
\* source); an update that changes the plan's status, other than between HOLD
\* and TRIM, records one row, a copy of the plan it leaves, and no update
\* records more than one; when a row
\* takes the history beyond the limit the oldest rows are dropped, so that
\* the last rows recorded remain, in order.
C29_HistoryKeepsLastRows ==
    /\ [](Len(plan_history) <= HistoryLimit)
    /\ [][op' = "update" =>
            \/ /\ plan_history' = plan_history
               /\ \/ current_plan'.status = current_plan.status
                  \/ {current_plan.status, current_plan'.status} \subseteq {"HOLD", "TRIM"}
            \/ LET all == Append(plan_history, current_plan'.status)
                   kept == Min(Len(all), HistoryLimit)
               IN  /\ Len(plan_history') = kept
                   /\ \A i \in 1..kept : plan_history'[i] = all[Len(all) - kept + i]]_vars

\* a full history from which the first row recorded, the ARMED row of the
\* replay's first bar, has been dropped
C29_Witness ==
    /\ Len(plan_history) = HistoryLimit
    /\ fed # <<>> /\ fed[1].status = "ARMED"
    /\ \A i \in DOMAIN plan_history : plan_history[i] # "ARMED"

\* the state of the machine the cache holds for a ticker
StateOf(tr, ms, t) == ms[tr[t]]

\* C27: every ticker of the cache has one machine of its own for the whole
\* session (never shared with another ticker, never replaced, and the one
\* get_trader hands out), and a step that changes the state of a ticker's
\* machine is an update or a reset of that very ticker, however the calls
\* for different tickers interleave.
C27_TickersAreIndependent ==
    /\ [](\A t, u \in DOMAIN traders : t # u => traders[t] # traders[u])
    /\ [](\A t \in Tickers : agents[t].pc = "got" =>
              t \in DOMAIN traders /\ agents[t].ref = traders[t])
    /\ [][\A t \in DOMAIN traders :
              /\ t \in DOMAIN traders' /\ traders'[t] = traders[t]
              /\ StateOf(traders', machines', t) # StateOf(traders, machines, t)
                    => svc_call' \in {[op |-> "update", ticker |-> t],
                                      [op |-> "reset_trader", ticker |-> t]}]_vars

\* QQQ's agent holds its machine, not yet updated, while TSLA's machine has
\* been updated twice and has entered a trade
C27_Witness ==
    /\ DOMAIN traders = Tickers
    /\ agents["QQQ"].pc = "got" /\ agents["QQQ"].updates = 0
    /\ svc_call = [op |-> "update", ticker |-> "TSLA"]
    /\ StateOf(traders, machines, "TSLA").current_plan.status = "ENTER"
    /\ StateOf(traders, machines, "QQQ") = reset_state

\* C33: after every update the row that was returned is the machine's stored
\* plan: the same status and the same timestamp.
C33_ReturnedRowIsStoredPlan ==
    op = "update" =>
        /\ returned.status = current_plan.status
        /\ returned.ts = current_plan.ts

\* a returned row that is not the stored plan is the WAIT row of one of the
\* two gates of update (trading hours, daily limit), stamped with the
\* snapshot's time
ReturnedRowIsStoredPlanOrGateRow ==
    op = "update" =>
        \/ returned.status = current_plan.status /\ returned.ts = current_plan.ts
        \/ returned.status = "WAIT"

\* C34: whenever the stored plan is ENTER, HOLD, TRIM or EXIT, its
\* entry_price and entry_ts are set.
C34_EnteredPlanHasEntry ==
    current_plan.status \in {"ENTER", "HOLD", "TRIM", "EXIT"} =>
        current_plan.entry_price # None /\ current_plan.entry_ts # None

\* an update that takes an ARMED plan to ENTER stores the snapshot's close and
\* time as the entry
EnterFromArmedSetsEntry ==
    [][op' = "update" /\ current_plan.status = "ARMED" /\ current_plan'.status = "ENTER"
          => /\ current_plan'.entry_price = prev_close'
             /\ current_plan'.entry_ts = current_plan'.ts]_vars

\* C35: for every setting of confirm_closes, a breakout_confirmed signal is
\* returned only by an update that leaves the FSM in CONFIRMED (so that the
\* next update resets it and an attempt gives at most one such signal).
C35_ConfirmedSignalMeansConfirmed ==
    signal.type = "breakout_confirmed" => fsm.state = "confirmed"

\* with confirm_closes >= 2 the bar that opens an attempt cannot meet the
\* structure factor, and the signal is returned from CONFIRMED only
ConfirmedSignalMeansConfirmedFromTwo ==
    fsm.confirm_closes >= 2 /\ signal.type = "breakout_confirmed"
        => fsm.state = "confirmed"

\* C39: whenever the FSM evaluates an attempt, the bar index it is given is
\* not smaller than the stored attempt_bar_index (bars_since_attempt >= 0),
\* also when an AnalysisState is reused by calls that replay from index 0.
C39_AttemptIndexNotAhead ==
    [][fsm.state = "attempt" /\ bar_index' = bar_index + 1
          => bar_index - fsm.attempt_bar_index >= 0]_vars

\* within one replay from index 0 the attempt in progress was opened on a bar
\* already fed
AttemptIndexNotAheadInOneReplay ==
    fsm.state = "attempt" => fsm.attempt_bar_index < bar_index

\* the events of the report's timeline that the top-up appended
ToppedUp == {i \in DOMAIN report_timeline : i > Len(tl_events)}

\* C32: in the report of a call, after the historical top-up as well, the
\* timeline holds no soft event on the bar of one of its hard events: when the
\* call's update emitted hard events for the last bar (the last of them is
\* always in the timeline), no topped-up soft event is on that bar.
C32_NoSoftEventOnHardBar ==
    (pc = "ready" /\ calls > 0 /\ HardIn(tl_new_events) # {}) =>
        \A j \in ToppedUp :
            report_timeline[j].bar_index # tl_new_events[1].bar_index

\* the stored events come first in the report's timeline, newest first
ReportStartsWithStoredEvents ==
    (pc = "ready" /\ calls > 0) =>
        /\ Len(report_timeline) >= Len(tl_events)
        /\ \A i \in DOMAIN tl_events :
              report_timeline[i] = tl_events[Len(tl_events) + 1 - i]
        /\ \A j \in ToppedUp : report_timeline[j].event_type \in SoftTypes

(***************************************************************************)
(* Properties of MemoryCache.                                              *)
(***************************************************************************)
\* C31: get(key) returns the value of the latest set(key, value, ttl) while
\* the time is not past the set time plus ttl; once it is, get returns None
\* and the entry is gone; get returns None for a key never set, deleted or
\* cleared.
C31_GetReturnsLatestUnexpired ==
    cache_call.op = "get" =>
        LET s == last_set[cache_call.key]
        IN  IF s # NoSet /\ cache_call.at <= s.at + s.ttl
            THEN cache_call.ret = s.value
            ELSE cache_call.ret = None /\ cache[cache_call.key] = NoEntry

\* a get at the very second an entry expires returns the value set last
C31_Witness ==
    /\ cache_call = [op |-> "get", key |-> "k1", at |-> 3, ret |-> 20]
    /\ last_set["k1"].ttl = 1 /\ last_set["k1"].at = 2
    /\ last_set["k2"] # NoSet /\ now > last_set["k2"].at + last_set["k2"].ttl
    /\ cache["k2"] = NoEntry

(***************************************************************************)
(* Properties of TwelveDataWebSocket.                                      *)
(***************************************************************************)
\* C36: when a connection is established, the subscribe message sent on it
\* holds every symbol whose last successful call is a subscribe, whether
\* it was made while the socket was closed or on an earlier connection.
C36_ResubscribedOnConnect ==
    [][ws_epoch' # ws_epoch =>
          \A symbol \in Symbols :
              last_ok[symbol].state = "subscribed" => symbol \in connect_msg']_vars

\* the second connection has just been established and its subscribe message
\* names a symbol subscribed on the first connection and one subscribed
\* while the socket was closed
C36_Witness ==
    /\ ws_open /\ ws_epoch = 2
    /\ connect_msg = {"QQQ", "TSLA"}
    /\ last_ok["QQQ"] = [state |-> "subscribed", online |-> TRUE]
    /\ last_ok["TSLA"] = [state |-> "subscribed", online |-> FALSE]

\* C37: after unsubscribe(symbol) has returned True and until the symbol is
\* subscribed again, get_latest_price(symbol) returns None.
C37_NoPriceAfterUnsubscribe ==
    \A input \in SymbolInputs :
        last_ok[upper(input)].state = "unsubscribed"
            /\ (ws_call.op = "subscribe" => ws_call.symbol # upper(input))
            => get_latest_price(input) = None

\* an unsubscribe that goes out on the open socket leaves no price behind
\* when it returns
UnsubscribeOnlineClearsPrice ==
    [][ws_call.op = "unsubscribe" /\ ws_call' = NoSocketCall
          /\ last_ok'[ws_call.symbol] = [state |-> "unsubscribed", online |-> TRUE]
          => latest_prices'[ws_call.symbol] = None]_vars

(***************************************************************************)
(* Properties of CooldownManager.                                          *)
(***************************************************************************)
\* the triggers recorded for the symbol of the last call less than d before it
RecordedWithin(d) ==
    {i \in DOMAIN trigger_log :
        /\ trigger_log[i].symbol = cd_call.symbol
        /\ cd_call.at - trigger_log[i].at < d}

\* C38: can_trigger(symbol, event) returns True only if fewer than
\* max_calls_per_day triggers were recorded for the symbol in the day before
\* the call and none of them of the event's type within the event's
\* cooldown (hard_cooldown for a hard event, soft_cooldown for a soft one).
C38_TrueOnlyOutsideCooldownAndLimit ==
    cd_call.op = "can_trigger" /\ cd_call.ret =>
        /\ Cardinality(RecordedWithin(Day)) < max_calls_per_day
        /\ \A i \in RecordedWithin(IF cd_call.severity = "hard" THEN hard_cooldown ELSE soft_cooldown) :
              trigger_log[i].event_type # cd_call.event_type

\* can_trigger returns True for a soft event exactly soft_cooldown after the
\* last trigger of its type, while the other symbol has max_calls_per_day
\* triggers recorded within the day
C38_Witness ==
    /\ cd_call.op = "can_trigger" /\ cd_call.ret
    /\ cd_call.symbol = "QQQ" /\ cd_call.severity = "soft"
    /\ \E i \in DOMAIN trigger_log :
          /\ trigger_log[i].symbol = "QQQ"
          /\ trigger_log[i].event_type = cd_call.event_type
          /\ cd_call.at - trigger_log[i].at = soft_cooldown
    /\ Cardinality({i \in DOMAIN trigger_log :
                       trigger_log[i].symbol = "TSLA" /\ cd_call.at - trigger_log[i].at < Day}) = max_calls_per_day

====
